---------------------------- MODULE Spec2Model ----------------------------
(***************************************************************************)
(* Model of the GastroMed practice-management server: the relational      *)
(* tables of shared/schema.ts, the DatabaseStorage operations of           *)
(* server/storage.ts and the HTTP handlers of server/routes.ts.            *)
(*                                                                         *)
(* Time is a clock `now` counted in abstract instants; a calendar day is   *)
(* DayLen instants and a month DaysPerMonth days; the clock advances at    *)
(* most MaxTime instants.  Identifiers are drawn from finite pools;        *)
(* randomUUID never returns an identifier twice.                           *)
(***************************************************************************)
EXTENDS Integers, Sequences, FiniteSets, TLC

VARIABLES
    now,                \* the wall clock read by new Date() and by SQL now()
    users,              \* table users: id -> row
    patients,           \* table patients: id -> row
    appointments,       \* table appointments: id -> row
    procedures,         \* table procedures: id -> row
    billing,            \* table billing: id -> row
    patientEvolutions,  \* table patient_evolutions: id -> row
    issued,             \* every identifier randomUUID has returned so far
    last,               \* the last HTTP exchange: request summary and response
    loggedIn,           \* history: the users a login has answered 200 for
    inflight,           \* the PATCH requests being served, one per connection
    browser,            \* the client: its query cache and the mutation it awaits
    startup             \* the runs of initializeDefaults, each at its statement

tables == <<users, patients, appointments, procedures, billing, patientEvolutions>>
vars == <<now, users, patients, appointments, procedures, billing,
          patientEvolutions, issued, last, loggedIn, inflight, browser, startup>>

---------------------------------------------------------------------------
(* Bounds of the model *)

MaxTime == 1
DayLen == 2
DaysPerMonth == 2
MaxPatients == 1
MaxAppointments == 2
MaxProcedures == 1
MaxBilling == 2
MaxEvolutions == 1
MaxConnections == 2
MaxRuns == 2

MonthLen == DaysPerMonth * DayLen

\* the instant the server starts at: the first instant of the second month
StartTime == MonthLen

---------------------------------------------------------------------------
(* JSON / JavaScript values as they arrive in req.body and pass through   *)
(* the handlers.  k is the JavaScript type; s the text of a string; n the  *)
(* number, the epoch instant of a Date (-1: Invalid Date), or the instant  *)
(* or amount a string spells; a the elements of an array.                  *)

JVal(k, s, n, a) == [k |-> k, s |-> s, n |-> n, a |-> a]
JStr(s)   == JVal("string", s, 0, <<>>)
JIso(t)   == JVal("string", "iso-8601", t, <<>>)   \* an ISO-8601 string for instant t
JDec(c)   == JVal("string", "decimal", c, <<>>)    \* a decimal string worth c
JNum(n)   == JVal("number", "", n, <<>>)
JBool(b)  == JVal("boolean", "", IF b THEN 1 ELSE 0, <<>>)
JArr(a)   == JVal("array", "", 0, a)
JDate(t)  == JVal("date", "", t, <<>>)             \* a Date object
JNull     == JVal("null", "", 0, <<>>)
JUndef    == JVal("undefined", "", 0, <<>>)

InvalidDate == JDate(-1)

\* SQL NULL in a text / varchar column, in a timestamp column
NullText == "<null>"
NullTime == -1

\* req.body.f : undefined when the key is absent
Field(body, f) == IF f \in DOMAIN body THEN body[f] ELSE JUndef

\* JavaScript truthiness, as used by `x ? .. : ..`, `x && ..`, `x || ..`
Truthy(j) ==
    CASE j.k = "undefined" -> FALSE
      [] j.k = "null"      -> FALSE
      [] j.k = "string"    -> j.s # ""
      [] j.k = "number"    -> j.n # 0
      [] j.k = "boolean"   -> j.n = 1
      [] j.k = "date"      -> TRUE
      [] OTHER             -> TRUE

\* new Date(x)
NewDate(j) ==
    CASE j.k = "string" /\ j.s = "iso-8601" -> JDate(j.n)
      [] j.k = "number"                     -> JDate(j.n)
      [] j.k = "date"                       -> JDate(j.n)
      [] j.k = "null"                       -> JDate(0)
      [] OTHER                              -> InvalidDate

\* { ...body, f: v } : the key is set even when v is undefined
With(body, f, v) == [g \in (DOMAIN body) \cup {f} |-> IF g = f THEN v ELSE body[g]]

\* { ...body, ...(cond && { f: v }) }
WithIf(body, cond, f, v) == IF cond THEN With(body, f, v) ELSE body

---------------------------------------------------------------------------
(* shared/schema.ts: enumerated domains and table columns.  A column     *)
(* descriptor gives the column type, NOT NULL, the default (JUndef: none; *)
(* JStr("now()"): the SQL clock), the enum domain and the referenced table.*)

userRoleEnum          == {"doctor", "receptionist"}
appointmentTypeEnum   == {"consultation", "endoscopy"}
appointmentStatusEnum == {"scheduled", "confirmed", "checked_in", "in_progress",
                          "completed", "cancelled", "no_show"}
procedureStatusEnum   == {"scheduled", "in_progress", "completed", "cancelled"}
billingStatusEnum     == {"pending", "paid", "overdue", "cancelled"}

SqlNow == JStr("now()")

Column(type, notNull, dflt, enum, ref) ==
    [type |-> type, notNull |-> notNull, dflt |-> dflt, enum |-> enum, ref |-> ref]
TextCol(notNull)       == Column("text", notNull, JUndef, {}, "")
RefCol(notNull, table) == Column("text", notNull, JUndef, {}, table)
EnumCol(enum, dflt)    == Column("enum", TRUE, dflt, enum, "")
TimeCol(notNull, dflt) == Column("timestamp", notNull, dflt, {}, "")
BoolCol(dflt)          == Column("boolean", TRUE, JBool(dflt), {}, "")
IntCol(dflt)           == Column("integer", TRUE, JNum(dflt), {}, "")
DecimalCol(notNull, dflt) == Column("decimal", notNull, dflt, {}, "")
JsonCol                == Column("jsonb", FALSE, JArr(<<>>), {}, "")

\* insertUserSchema: users without id, createdAt
userColumns ==
    [ username |-> TextCol(TRUE),
      password |-> TextCol(TRUE),
      fullName |-> TextCol(TRUE),
      email    |-> TextCol(TRUE),
      role     |-> EnumCol(userRoleEnum, JStr("receptionist")),
      isActive |-> BoolCol(TRUE) ]

\* insertPatientSchema: patients without id, createdAt, updatedAt
patientColumns ==
    [ firstName             |-> TextCol(TRUE),
      lastName              |-> TextCol(TRUE),
      dateOfBirth           |-> TextCol(TRUE),
      phone                 |-> TextCol(TRUE),
      email                 |-> TextCol(FALSE),
      address               |-> TextCol(FALSE),
      emergencyContact      |-> TextCol(FALSE),
      emergencyPhone        |-> TextCol(FALSE),
      insurancePrimary      |-> TextCol(FALSE),
      insurancePolicyNumber |-> TextCol(FALSE),
      insuranceGroupNumber  |-> TextCol(FALSE),
      medicalHistory        |-> JsonCol,
      allergies             |-> JsonCol,
      medications           |-> JsonCol,
      notes                 |-> TextCol(FALSE),
      isActive              |-> BoolCol(TRUE) ]

\* insertAppointmentSchema
appointmentColumns ==
    [ patientId       |-> RefCol(TRUE, "patients"),
      doctorId        |-> RefCol(TRUE, "users"),
      appointmentDate |-> TimeCol(TRUE, JUndef),
      duration        |-> IntCol(30),
      type            |-> EnumCol(appointmentTypeEnum, JUndef),
      status          |-> EnumCol(appointmentStatusEnum, JStr("scheduled")),
      reason          |-> TextCol(TRUE),
      notes           |-> TextCol(FALSE),
      checkedInAt     |-> TimeCol(FALSE, JUndef),
      completedAt     |-> TimeCol(FALSE, JUndef),
      createdBy       |-> RefCol(TRUE, "users") ]

\* insertProcedureSchema
procedureColumns ==
    [ appointmentId        |-> RefCol(TRUE, "appointments"),
      patientId            |-> RefCol(TRUE, "patients"),
      doctorId             |-> RefCol(TRUE, "users"),
      procedureType        |-> TextCol(TRUE),
      status               |-> EnumCol(procedureStatusEnum, JStr("scheduled")),
      scheduledDate        |-> TimeCol(TRUE, JUndef),
      startTime            |-> TimeCol(FALSE, JUndef),
      endTime              |-> TimeCol(FALSE, JUndef),
      findings             |-> TextCol(FALSE),
      recommendations      |-> TextCol(FALSE),
      complications        |-> TextCol(FALSE),
      medications          |-> JsonCol,
      followUpRequired     |-> BoolCol(FALSE),
      followUpInstructions |-> TextCol(FALSE),
      pathologyOrdered     |-> BoolCol(FALSE),
      pathologyResults     |-> TextCol(FALSE) ]

\* insertBillingSchema
billingColumns ==
    [ patientId             |-> RefCol(TRUE, "patients"),
      appointmentId         |-> RefCol(FALSE, "appointments"),
      procedureId           |-> RefCol(FALSE, "procedures"),
      description           |-> TextCol(TRUE),
      amount                |-> DecimalCol(TRUE, JUndef),
      insuranceCovered      |-> DecimalCol(FALSE, JDec(0)),
      patientResponsibility |-> DecimalCol(TRUE, JUndef),
      status                |-> EnumCol(billingStatusEnum, JStr("pending")),
      billingDate           |-> TimeCol(TRUE, SqlNow),
      dueDate               |-> TimeCol(TRUE, JUndef),
      paidDate              |-> TimeCol(FALSE, JUndef),
      paymentMethod         |-> TextCol(FALSE),
      notes                 |-> TextCol(FALSE) ]

\* insertPatientEvolutionSchema
patientEvolutionColumns ==
    [ patientId               |-> RefCol(TRUE, "patients"),
      appointmentId           |-> RefCol(FALSE, "appointments"),
      doctorId                |-> RefCol(TRUE, "users"),
      evolutionDate           |-> TimeCol(TRUE, SqlNow),
      chiefComplaint          |-> TextCol(FALSE),
      historyOfPresentIllness |-> TextCol(FALSE),
      physicalExamination     |-> TextCol(FALSE),
      assessment              |-> TextCol(FALSE),
      plan                    |-> TextCol(FALSE),
      prescriptions           |-> JsonCol,
      nextAppointment         |-> TextCol(FALSE),
      observations            |-> TextCol(FALSE) ]

\* the server-managed columns every table but users carries
Stamps == {"createdAt", "updatedAt"}

---------------------------------------------------------------------------
(* drizzle-zod: the validator createInsertSchema derives from a table.    *)

Present(body, f) == f \in DOMAIN body /\ body[f].k # "undefined"

\* a column is required when it is NOT NULL and has no default
Required(col) == col.notNull /\ col.dflt = JUndef

\* the zod type of a column accepts the value
ZodAccepts(col, j) ==
    IF j.k = "null" THEN ~col.notNull
    ELSE CASE col.type = "text"      -> j.k = "string"
           [] col.type = "enum"      -> j.k = "string" /\ j.s \in col.enum
           [] col.type = "timestamp" -> j.k = "date" /\ j.n >= 0
           [] col.type = "boolean"   -> j.k = "boolean"
           [] col.type = "integer"   -> j.k = "number"
           [] col.type = "decimal"   -> j.k = "string"
           [] col.type = "jsonb"     -> j.k \in {"string", "number", "boolean", "array"}
           [] OTHER                  -> FALSE

\* the fields schema.parse (partial: schema.partial().parse) reports
ZodIssues(cols, body, partial) ==
    { f \in DOMAIN cols :
        IF Present(body, f) THEN ~ZodAccepts(cols[f], body[f])
        ELSE ~partial /\ Required(cols[f]) }

\* a decimal column holding text that is no number (the store rejects it),
\* and SQL NULL in a decimal column
BadDecimal == -1
NullDecimal == -2

\* the value a validated field carries to the query builder
Native(col, j) ==
    CASE col.type = "jsonb"     -> j
      [] col.type = "timestamp" -> IF j.k = "null" THEN NullTime ELSE j.n
      [] col.type = "boolean"   -> (j.n = 1)
      [] col.type = "integer"   -> j.n
      [] col.type = "decimal"   -> IF j.k = "null" THEN NullDecimal
                                   ELSE IF j.s = "decimal" THEN j.n ELSE BadDecimal
      [] OTHER                  -> IF j.k = "null" THEN NullText ELSE j.s

\* schema.parse(body): unknown keys are stripped, absent keys stay absent
ZodParse(cols, body, partial) ==
    [ ok   |-> ZodIssues(cols, body, partial) = {},
      data |-> [f \in {g \in DOMAIN cols : Present(body, g)} |-> Native(cols[f], body[f])] ]

---------------------------------------------------------------------------
(* The relational store: rows, defaults and constraints.                  *)

Table(name) ==
    CASE name = "users"             -> users
      [] name = "patients"          -> patients
      [] name = "appointments"      -> appointments
      [] name = "procedures"        -> procedures
      [] name = "billing"           -> billing
      [] name = "patientEvolutions" -> patientEvolutions

IsNull(col, v) ==
    CASE col.type = "timestamp" -> v = NullTime
      [] col.type = "decimal"   -> v = NullDecimal
      [] col.type = "jsonb"     -> v = JNull
      [] col.type = "boolean"   -> FALSE
      [] col.type = "integer"   -> FALSE
      [] OTHER                  -> v = NullText

\* the value the store gives a column the INSERT does not mention
DefaultNative(col) ==
    IF col.dflt = JUndef THEN Native(col, JNull)
    ELSE IF col.dflt = SqlNow THEN now
    ELSE Native(col, col.dflt)

\* INSERT ... VALUES (values) RETURNING *: the stored row
InsertRow(cols, values) ==
    [ c \in (DOMAIN cols) \cup {"id"} \cup Stamps |->
        IF c \in DOMAIN values THEN values[c]
        ELSE IF c \in Stamps THEN now
        ELSE DefaultNative(cols[c]) ]

\* the statement writing a fresh row: the server stamps both start anew
UpdateRowReplacing(row, data) ==
    [ c \in DOMAIN row |-> IF c \in DOMAIN data THEN data[c]
                           ELSE IF c = "createdAt" /\ "updatedAt" \in DOMAIN data
                                THEN data.updatedAt
                           ELSE row[c] ]

\* UPDATE ... SET (data) : the row after the statement
UpdateRow(row, data) ==
    [ c \in DOMAIN row |-> IF c \in DOMAIN data THEN data[c] ELSE row[c] ]

\* NOT NULL, foreign-key and numeric-syntax checks on a row being written
Violates(cols, row) ==
    \E c \in DOMAIN cols :
        \/ cols[c].notNull /\ IsNull(cols[c], row[c])
        \/ cols[c].ref # "" /\ row[c] # NullText /\ row[c] \notin DOMAIN Table(cols[c].ref)
        \/ cols[c].type = "decimal" /\ row[c] = BadDecimal

\* a bound parameter the store cannot convert, whatever rows match
BadParameter(cols, data) ==
    \E c \in (DOMAIN cols) \cap (DOMAIN data) :
        cols[c].type = "decimal" /\ data[c] = BadDecimal

\* the foreign key of procedures alone
AppointmentReferencedByProcedure(id) ==
    \E r \in DOMAIN procedures : procedures[r].appointmentId = id

\* the rows of other tables holding a foreign key to appointment id
AppointmentReferenced(id) ==
    \/ \E r \in DOMAIN procedures : procedures[r].appointmentId = id
    \/ \E r \in DOMAIN billing : billing[r].appointmentId = id
    \/ \E r \in DOMAIN patientEvolutions : patientEvolutions[r].appointmentId = id

\* the outcome of one storage call: threw, the table after it, the value returned
Outcome(threw, tbl, ret) == [threw |-> threw, tbl |-> tbl, ret |-> ret]

Undefined == "undefined"

---------------------------------------------------------------------------
(* Identifiers *)

IdNames(prefix) ==
    CASE prefix = "p" -> <<"p1", "p2", "p3", "p4">>
      [] prefix = "a" -> <<"a1", "a2", "a3", "a4">>
      [] prefix = "r" -> <<"r1", "r2", "r3", "r4">>
      [] prefix = "b" -> <<"b1", "b2", "b3", "b4">>
      [] prefix = "e" -> <<"e1", "e2", "e3", "e4">>

Pool(prefix, n) == { IdNames(prefix)[i] : i \in 1..n }

PatientIds     == Pool("p", MaxPatients)
AppointmentIds == Pool("a", MaxAppointments)
ProcedureIds   == Pool("r", MaxProcedures)
BillingIds     == Pool("b", MaxBilling)
EvolutionIds   == Pool("e", MaxEvolutions)

\* crypto.randomUUID(): an identifier never returned before
randomUUID(pool) == CHOOSE id \in pool : id \notin issued

CanIssue(pool) == pool \ issued # {}

---------------------------------------------------------------------------
(* Text: the characters of the strings the model uses, for LOWER and LIKE *)

Chars(str) ==
    CASE str = "Maria"   -> <<"M", "a", "r", "i", "a">>
      [] str = "Ana"     -> <<"A", "n", "a">>
      [] str = "Silva"   -> <<"S", "i", "l", "v", "a">>
      [] str = "Souza"   -> <<"S", "o", "u", "z", "a">>
      [] str = "5551234" -> <<"5", "5", "5", "1", "2", "3", "4">>
      [] str = "m@x.io"  -> <<"m", "@", "x", ".", "i", "o">>
      [] str = "mar"     -> <<"m", "a", "r">>
      [] str = "SILVA"   -> <<"S", "I", "L", "V", "A">>
      [] str = "512"     -> <<"5", "1", "2">>
      [] str = "xyz"     -> <<"x", "y", "z">>
      [] str = "X.IO"    -> <<"X", ".", "I", "O">>
      [] str = "_"       -> <<"_">>
      [] str = "%"       -> <<"%">>
      [] OTHER           -> <<>>

\* String.prototype.toLowerCase / SQL LOWER on one character
LowerChar(c) ==
    CASE c = "A" -> "a" [] c = "I" -> "i" [] c = "L" -> "l" [] c = "M" -> "m"
      [] c = "O" -> "o" [] c = "S" -> "s" [] c = "V" -> "v" [] c = "X" -> "x"
      [] OTHER -> c

Lower(cs) == [i \in 1..Len(cs) |-> LowerChar(cs[i])]

\* SQL: text LIKE pattern, with the wildcards % and _
RECURSIVE Like(_, _)
Like(text, pat) ==
    IF pat = <<>> THEN text = <<>>
    ELSE IF Head(pat) = "%"
         THEN Like(text, Tail(pat)) \/ (text # <<>> /\ Like(Tail(text), pat))
    ELSE /\ text # <<>>
         /\ Head(pat) = "_" \/ Head(pat) = Head(text)
         /\ Like(Tail(text), Tail(pat))

---------------------------------------------------------------------------
(* server/storage.ts: patients *)

\* x || null on a validated jsonb field
OrNull(data, f) == IF f \in DOMAIN data /\ Truthy(data[f]) THEN data[f] ELSE JNull

Without(data, fs) == [c \in (DOMAIN data) \ fs |-> data[c]]

Put(tbl, id, row) == [x \in (DOMAIN tbl) \cup {id} |-> IF x = id THEN row ELSE tbl[x]]

\* createPatient leaving the array columns to the declared defaults
createPatientDeclaredDefaults(insertPatient, up) ==
    LET id == randomUUID(PatientIds)
        row == InsertRow(patientColumns, With(insertPatient, "id", id))
        threw == ~up \/ Violates(patientColumns, row)
    IN  Outcome(threw,
                IF threw THEN patients ELSE Put(patients, id, row),
                IF threw THEN Undefined ELSE id)

createPatient(insertPatient, up) ==
    LET id == randomUUID(PatientIds)
        patientWithId ==
            With(With(With(insertPatient, "id", id),
                      "allergies", OrNull(insertPatient, "allergies")),
                 "medicalHistory", OrNull(insertPatient, "medicalHistory"))
        row == InsertRow(patientColumns, patientWithId)
        threw == ~up \/ Violates(patientColumns, row)
    IN  Outcome(threw,
                IF threw THEN patients ELSE Put(patients, id, row),
                IF threw THEN Undefined ELSE id)

\* updatePatient leaving isActive to deletePatient alone
updatePatientActiveFrozen(id, insertPatient, up) ==
    LET updateData ==
            Without(With(insertPatient, "updatedAt", now),
                    {"allergies", "medicalHistory", "isActive"})
        hit == id \in DOMAIN patients
        row == IF hit THEN UpdateRow(patients[id], updateData) ELSE updateData
        threw == \/ ~up
                 \/ BadParameter(patientColumns, updateData)
                 \/ hit /\ Violates(patientColumns, row)
    IN  Outcome(threw,
                IF threw \/ ~hit THEN patients ELSE Put(patients, id, row),
                IF threw \/ ~hit THEN Undefined ELSE id)

updatePatient(id, insertPatient, up) ==
    LET updateData ==
            Without(With(insertPatient, "updatedAt", now), {"allergies", "medicalHistory"})
        hit == id \in DOMAIN patients
        row == IF hit THEN UpdateRow(patients[id], updateData) ELSE updateData
        threw == \/ ~up
                 \/ BadParameter(patientColumns, updateData)
                 \/ hit /\ Violates(patientColumns, row)
    IN  Outcome(threw,
                IF threw \/ ~hit THEN patients ELSE Put(patients, id, row),
                IF threw \/ ~hit THEN Undefined ELSE id)

\* deletePatient removing the row (DELETE FROM patients WHERE id = ?)
deletePatientRemovesRow(id, up) ==
    LET hit == id \in DOMAIN patients
        threw == ~up
    IN  Outcome(threw,
                IF threw \/ ~hit THEN patients
                ELSE [x \in (DOMAIN patients) \ {id} |-> patients[x]],
                IF threw THEN Undefined ELSE IF hit THEN "true" ELSE "false")

\* deletePatient matching active rows only (WHERE id = ? AND is_active)
deletePatientActiveOnly(id, up) ==
    LET hit == id \in DOMAIN patients /\ patients[id].isActive
        row == IF hit
               THEN UpdateRow(patients[id], [isActive |-> FALSE, updatedAt |-> now])
               ELSE <<>>
        threw == ~up
    IN  Outcome(threw,
                IF threw \/ ~hit THEN patients ELSE Put(patients, id, row),
                IF threw THEN Undefined ELSE IF hit THEN "true" ELSE "false")

deletePatient(id, up) ==
    LET hit == id \in DOMAIN patients
        row == IF hit
               THEN UpdateRow(patients[id], [isActive |-> FALSE, updatedAt |-> now])
               ELSE <<>>
        threw == ~up
    IN  Outcome(threw,
                IF threw \/ ~hit THEN patients ELSE Put(patients, id, row),
                IF threw THEN Undefined ELSE IF hit THEN "true" ELSE "false")

getPatient(id) == IF id \in DOMAIN patients THEN id ELSE Undefined

\* the sequences that list the rows `ids` of tbl by descending key; rows
\* with equal keys come in an order the store chooses
Descending(tbl, ids, key) ==
    { q \in [1..Cardinality(ids) -> ids] :
        /\ \A i, j \in 1..Cardinality(ids) : i # j => q[i] # q[j]
        /\ \A i, j \in 1..Cardinality(ids) : i < j => tbl[q[i]][key] >= tbl[q[j]][key] }

\* LIMIT limit OFFSET offset
Page(q, limit, offset) ==
    SubSeq(q, offset + 1, IF offset + limit < Len(q) THEN offset + limit ELSE Len(q))

\* getPatients without the isActive filter
getPatientsUnfiltered(limit, offset) ==
    { Page(q, limit, offset) : q \in Descending(patients, DOMAIN patients, "createdAt") }

\* the results getPatients(limit, offset) may return (ids, in order)
getPatients(limit, offset) ==
    { Page(q, limit, offset) :
        q \in Descending(patients, {id \in DOMAIN patients : patients[id].isActive},
                         "createdAt") }

\* a text column matched against the search term; NULL matches nothing
ColumnLike(v, lowered, searchTerm) ==
    v # NullText /\ Like(IF lowered THEN Lower(Chars(v)) ELSE Chars(v), searchTerm)

\* the rows searchPatients(query) returns (ids)
searchPatients(query) ==
    LET searchTerm == <<"%">> \o Lower(Chars(query)) \o <<"%">>
    IN  { id \in DOMAIN patients :
            /\ patients[id].isActive
            /\ \/ ColumnLike(patients[id].firstName, TRUE, searchTerm)
               \/ ColumnLike(patients[id].lastName, TRUE, searchTerm)
               \/ ColumnLike(patients[id].phone, FALSE, searchTerm)
               \/ ColumnLike(patients[id].email, TRUE, searchTerm) }

---------------------------------------------------------------------------
(* server/storage.ts: appointments *)

createAppointment(insertAppointment, up) ==
    LET id == randomUUID(AppointmentIds)
        row == InsertRow(appointmentColumns, With(insertAppointment, "id", id))
        threw == ~up \/ Violates(appointmentColumns, row)
    IN  Outcome(threw,
                IF threw THEN appointments ELSE Put(appointments, id, row),
                IF threw THEN Undefined ELSE id)

\* updateAppointment refusing to touch an appointment whose status is final
updateAppointmentFinalStatus(id, insertAppointment, up) ==
    LET updateData == With(insertAppointment, "updatedAt", now)
        hit == /\ id \in DOMAIN appointments
               /\ appointments[id].status \notin {"completed", "cancelled", "no_show"}
        row == IF hit THEN UpdateRow(appointments[id], updateData) ELSE updateData
        threw == ~up \/ (hit /\ Violates(appointmentColumns, row))
    IN  Outcome(threw,
                IF threw \/ ~hit THEN appointments ELSE Put(appointments, id, row),
                IF threw \/ ~hit THEN Undefined ELSE id)

\* updateAppointment leaving updatedAt as it was
updateAppointmentUnstamped(id, insertAppointment, up) ==
    LET updateData == insertAppointment
        hit == id \in DOMAIN appointments
        row == IF hit THEN UpdateRow(appointments[id], updateData) ELSE updateData
        threw == ~up \/ (hit /\ Violates(appointmentColumns, row))
    IN  Outcome(threw,
                IF threw \/ ~hit THEN appointments ELSE Put(appointments, id, row),
                IF threw \/ ~hit THEN Undefined ELSE id)

updateAppointment(id, insertAppointment, up) ==
    LET updateData == With(insertAppointment, "updatedAt", now)
        hit == id \in DOMAIN appointments
        row == IF hit THEN UpdateRow(appointments[id], updateData) ELSE updateData
        threw == ~up \/ (hit /\ Violates(appointmentColumns, row))
    IN  Outcome(threw,
                IF threw \/ ~hit THEN appointments ELSE Put(appointments, id, row),
                IF threw \/ ~hit THEN Undefined ELSE id)

\* deleteAppointment on a table no foreign key refers to
deleteAppointmentUnreferenced(id, up) ==
    LET hit == id \in DOMAIN appointments
        threw == ~up
    IN  Outcome(threw,
                IF threw \/ ~hit THEN appointments
                ELSE [x \in (DOMAIN appointments) \ {id} |-> appointments[x]],
                IF threw THEN Undefined ELSE IF hit THEN "true" ELSE "false")

\* deleteAppointment reporting the row deleted while it stays in the table
deleteAppointmentKeepsRow(id, up) ==
    LET hit == id \in DOMAIN appointments
        threw == ~up \/ (hit /\ AppointmentReferenced(id))
    IN  Outcome(threw, appointments,
                IF threw THEN Undefined ELSE IF hit THEN "true" ELSE "false")

\* DELETE FROM appointments WHERE id = ? ; rowCount > 0
deleteAppointment(id, up) ==
    LET hit == id \in DOMAIN appointments
        threw == ~up \/ (hit /\ AppointmentReferenced(id))
    IN  Outcome(threw,
                IF threw \/ ~hit THEN appointments
                ELSE [x \in (DOMAIN appointments) \ {id} |-> appointments[x]],
                IF threw THEN Undefined ELSE IF hit THEN "true" ELSE "false")

\* the appointment joined (inner) with its patient and its doctor
AppointmentJoined(id) ==
    /\ id \in DOMAIN appointments
    /\ appointments[id].patientId \in DOMAIN patients
    /\ appointments[id].doctorId \in DOMAIN users

getAppointment(id) == IF AppointmentJoined(id) THEN id ELSE Undefined

\* gte(appointmentDate, startDate) AND lte(appointmentDate, endDate)
InDateRange(t, startDate, endDate) == startDate.n <= t /\ t <= endDate.n

\* a listing that applies each bound that is given, alone or with the other
getAppointmentsWithinBoundsGiven(startDate, endDate) ==
    Descending(appointments,
               { id \in DOMAIN appointments :
                   /\ AppointmentJoined(id)
                   /\ Truthy(startDate) => startDate.n <= appointments[id].appointmentDate
                   /\ Truthy(endDate) => appointments[id].appointmentDate <= endDate.n },
               "appointmentDate")

\* the results getAppointments(startDate, endDate) may return (ids, in order);
\* the range applies only when both bounds are given
getAppointments(startDate, endDate) ==
    Descending(appointments,
               { id \in DOMAIN appointments :
                   /\ AppointmentJoined(id)
                   /\ (Truthy(startDate) /\ Truthy(endDate)) =>
                        InDateRange(appointments[id].appointmentDate, startDate, endDate) },
               "appointmentDate")

\* new Date(y, m, d) of an instant: local midnight of its day
StartOfDay(t) == t - (t % DayLen)
\* new Date(y, m, d + 1)
StartOfNextDay(t) == StartOfDay(t) + DayLen
\* new Date(y, m, 1)
StartOfMonth(t) == t - (t % MonthLen)

getTodaysAppointments ==
    LET today == now
        startOfDay == JDate(StartOfDay(today))
        endOfDay == JDate(StartOfNextDay(today))
    IN  getAppointments(startOfDay, endOfDay)

---------------------------------------------------------------------------
(* server/storage.ts: procedures, billing, patient evolutions, users *)

createProcedure(insertProcedure, up) ==
    LET id == randomUUID(ProcedureIds)
        procedureWithId ==
            With(With(insertProcedure, "id", id),
                 "medications", OrNull(insertProcedure, "medications"))
        row == InsertRow(procedureColumns, procedureWithId)
        threw == ~up \/ Violates(procedureColumns, row)
    IN  Outcome(threw,
                IF threw THEN procedures ELSE Put(procedures, id, row),
                IF threw THEN Undefined ELSE id)

\* updateProcedure persisting the medications of the payload too
updateProcedureWithMedications(id, insertProcedure, up) ==
    LET updateData == With(insertProcedure, "updatedAt", now)
        hit == id \in DOMAIN procedures
        row == IF hit THEN UpdateRow(procedures[id], updateData) ELSE updateData
        threw == ~up \/ (hit /\ Violates(procedureColumns, row))
    IN  Outcome(threw,
                IF threw \/ ~hit THEN procedures ELSE Put(procedures, id, row),
                IF threw \/ ~hit THEN Undefined ELSE id)

updateProcedure(id, insertProcedure, up) ==
    LET updateData == Without(With(insertProcedure, "updatedAt", now), {"medications"})
        hit == id \in DOMAIN procedures
        row == IF hit THEN UpdateRow(procedures[id], updateData) ELSE updateData
        threw == ~up \/ (hit /\ Violates(procedureColumns, row))
    IN  Outcome(threw,
                IF threw \/ ~hit THEN procedures ELSE Put(procedures, id, row),
                IF threw \/ ~hit THEN Undefined ELSE id)

getProcedure(id) ==
    IF /\ id \in DOMAIN procedures
       /\ procedures[id].patientId \in DOMAIN patients
       /\ procedures[id].doctorId \in DOMAIN users
       /\ procedures[id].appointmentId \in DOMAIN appointments
    THEN id ELSE Undefined

createBillingRecord(insertBilling, up) ==
    LET id == randomUUID(BillingIds)
        row == InsertRow(billingColumns, With(insertBilling, "id", id))
        threw == ~up \/ Violates(billingColumns, row)
    IN  Outcome(threw,
                IF threw THEN billing ELSE Put(billing, id, row),
                IF threw THEN Undefined ELSE id)

updateBillingRecord(id, insertBilling, up) ==
    LET updateData == With(insertBilling, "updatedAt", now)
        hit == id \in DOMAIN billing
        row == IF hit THEN UpdateRow(billing[id], updateData) ELSE updateData
        threw == \/ ~up
                 \/ BadParameter(billingColumns, updateData)
                 \/ hit /\ Violates(billingColumns, row)
    IN  Outcome(threw,
                IF threw \/ ~hit THEN billing ELSE Put(billing, id, row),
                IF threw \/ ~hit THEN Undefined ELSE id)

getBillingRecord(id) ==
    IF id \in DOMAIN billing /\ billing[id].patientId \in DOMAIN patients
    THEN id ELSE Undefined

createPatientEvolution(evolution, up) ==
    LET newEvolution ==
            With(With(With(evolution, "id", randomUUID(EvolutionIds)),
                      "createdAt", now),
                 "updatedAt", now)
        row == InsertRow(patientEvolutionColumns, newEvolution)
        threw == ~up \/ Violates(patientEvolutionColumns, row)
    IN  Outcome(threw,
                IF threw THEN patientEvolutions ELSE Put(patientEvolutions, row.id, row),
                IF threw THEN Undefined ELSE row.id)

updatePatientEvolution(id, evolution, up) ==
    LET updateData == With(evolution, "updatedAt", now)
        hit == id \in DOMAIN patientEvolutions
        row == IF hit THEN UpdateRow(patientEvolutions[id], updateData) ELSE updateData
        threw == ~up \/ (hit /\ Violates(patientEvolutionColumns, row))
    IN  Outcome(threw,
                IF threw \/ ~hit THEN patientEvolutions ELSE Put(patientEvolutions, id, row),
                IF threw \/ ~hit THEN Undefined ELSE id)

\* deletePatientEvolution raising an error when no row was deleted
deletePatientEvolutionOrThrow(id, up) ==
    LET hit == id \in DOMAIN patientEvolutions
        threw == ~up \/ ~hit
    IN  Outcome(threw,
                IF threw THEN patientEvolutions
                ELSE [x \in (DOMAIN patientEvolutions) \ {id} |-> patientEvolutions[x]],
                IF threw THEN Undefined ELSE "true")

deletePatientEvolution(id, up) ==
    LET hit == id \in DOMAIN patientEvolutions
        threw == ~up
    IN  Outcome(threw,
                IF threw \/ ~hit THEN patientEvolutions
                ELSE [x \in (DOMAIN patientEvolutions) \ {id} |-> patientEvolutions[x]],
                IF threw THEN Undefined ELSE IF hit THEN "true" ELSE "false")

\* inner joins on patient and doctor, left join on the appointment
getPatientEvolution(id) ==
    IF /\ id \in DOMAIN patientEvolutions
       /\ patientEvolutions[id].patientId \in DOMAIN patients
       /\ patientEvolutions[id].doctorId \in DOMAIN users
    THEN id ELSE Undefined

\* the user with the username (usernames are unique), or undefined
\* the rows getUsers(role) returns (ids): the active users, of the role when
\* one is given
getUsers(role) ==
    { u \in DOMAIN users :
        users[u].isActive /\ (Truthy(role) => users[u].role = role.s) }

\* a role outside the enum cannot be compared with the column
RoleThrows(role) == Truthy(role) /\ role.s \notin userRoleEnum

\* username and email are UNIQUE
UserTaken(id, row) ==
    \E u \in (DOMAIN users) \ {id} :
        users[u].username = row.username \/ users[u].email = row.email

updateUser(id, insertUser, up) ==
    LET hit == id \in DOMAIN users
        row == IF hit THEN UpdateRow(users[id], insertUser) ELSE insertUser
        threw == ~up \/ (hit /\ (Violates(userColumns, row) \/ UserTaken(id, row)))
    IN  Outcome(threw,
                IF threw \/ ~hit THEN users ELSE Put(users, id, row),
                IF threw \/ ~hit THEN Undefined ELSE id)

getUserByUsername(username) ==
    IF \E u \in DOMAIN users : users[u].username = username
    THEN CHOOSE u \in DOMAIN users : users[u].username = username
    ELSE Undefined

---------------------------------------------------------------------------
(* server/storage.ts: getDashboardStats *)

RECURSIVE SumAmount(_)
SumAmount(ids) ==
    IF ids = {} THEN 0
    ELSE LET id == CHOOSE x \in ids : TRUE
         IN  billing[id].amount + SumAmount(ids \ {id})

\* the billing rows monthlyRevenue sums: paid, with a paidDate (NULL
\* compares to nothing) on or after the first instant of the month
PaidThisMonth ==
    { id \in DOMAIN billing :
        /\ billing[id].status = "paid"
        /\ billing[id].paidDate # NullTime
        /\ billing[id].paidDate >= StartOfMonth(now) }

\* what node-postgres hands back for a count(*) or a DECIMAL column: the
\* value as text (sql<number> is a compile-time annotation only)
SqlNumeric(n) == JDec(n)

\* x || y
OrElse(x, y) == IF Truthy(x) THEN x ELSE y

\* the stats getDashboardStats() may return
getDashboardStats ==
    { [ todayAppointments |-> JNum(Len(todaysAppointments)),
        pendingProcedures |->
            OrElse(SqlNumeric(Cardinality({ id \in DOMAIN procedures :
                                              procedures[id].status = "scheduled" })),
                   JNum(0)),
        activePatients |->
            OrElse(SqlNumeric(Cardinality({ id \in DOMAIN patients :
                                              patients[id].isActive })),
                   JNum(0)),
        monthlyRevenue |-> OrElse(SqlNumeric(SumAmount(PaidThisMonth)), JNum(0)) ] :
      todaysAppointments \in getTodaysAppointments }

---------------------------------------------------------------------------
(* server/routes.ts: the response of a handler, and the patient routes    *)

\* op: the route; id: req.params.id; status: the HTTP status; ret: what the
\* storage call returned; threw: the storage call threw; leak: the body
\* carries the text of the internal error; was: the target patient before
\* the request; rows: the ids of a list response, in order; stats: the body
\* of GET /api/dashboard/stats
NoStats ==
    [todayAppointments |-> JUndef, pendingProcedures |-> JUndef,
     activePatients |-> JUndef, monthlyRevenue |-> JUndef]

\* no user in the body
NoUser ==
    [id |-> "", username |-> "", fullName |-> "", email |-> "", role |-> "",
     isActive |-> FALSE, createdAt |-> 0]

Reply(op, id, status, ret) ==
    [op |-> op, id |-> id, status |-> status, ret |-> ret, threw |-> FALSE,
     leak |-> FALSE, was |-> "", rows |-> <<>>, stats |-> NoStats, user |-> NoUser]

\* the catch block answered: the storage call threw
Caught(op, id, status, leak) ==
    [Reply(op, id, status, "undefined") EXCEPT !.threw = TRUE, !.leak = leak]

Listed(op, id, rows) == [Reply(op, id, 200, "rows") EXCEPT !.rows = rows]

WasPatient(id) ==
    IF id \notin DOMAIN patients THEN "absent"
    ELSE IF patients[id].isActive THEN "active" ELSE "inactive"

OnPatient(reply) == [reply EXCEPT !.was = WasPatient(reply.id)]

\* the elements of a sequence
Range(q) == { q[i] : i \in 1..Len(q) }

Orderings(S) ==
    { q \in [1..Cardinality(S) -> S] :
        \A i, j \in 1..Cardinality(S) : i # j => q[i] # q[j] }

DefaultLimit == 50
DefaultOffset == 0

\* parseInt(req.query.x) || dflt : NaN and 0 both give the default
ParseIntOr(j, dflt) == IF j.k = "number" /\ j.n # 0 THEN j.n ELSE dflt

\* GET /api/patients
GetPatients(limitQ, offsetQ, up) ==
    LET limit == ParseIntOr(limitQ, DefaultLimit)
        offset == ParseIntOr(offsetQ, DefaultOffset)
        op == "GET /api/patients"
    IN  /\ IF ~up \/ limit < 0 \/ offset < 0
           THEN last' = Caught(op, "", 500, FALSE)
           ELSE \E rows \in getPatients(limit, offset) : last' = Listed(op, "", rows)
        /\ UNCHANGED <<startup, browser, inflight, loggedIn, now, tables, issued>>

\* GET /api/patients/search
SearchPatients(q, up) ==
    LET op == "GET /api/patients/search"
    IN  /\ IF ~Truthy(q)
           THEN last' = Reply(op, "", 400, Undefined)
           ELSE IF ~up
           THEN last' = Caught(op, "", 500, FALSE)
           ELSE \E rows \in Orderings(searchPatients(q.s)) : last' = Listed(op, "", rows)
        /\ UNCHANGED <<startup, browser, inflight, loggedIn, now, tables, issued>>

\* GET /api/patients/:id
GetPatient(id, up) ==
    LET op == "GET /api/patients/:id"
    IN  /\ last' = IF ~up THEN Caught(op, id, 500, FALSE)
                   ELSE IF getPatient(id) = Undefined THEN Reply(op, id, 404, Undefined)
                   ELSE Reply(op, id, 200, id)
        /\ UNCHANGED <<startup, browser, inflight, loggedIn, now, tables, issued>>

\* POST /api/patients
PostPatients(body, up) ==
    LET parsed == ZodParse(patientColumns, body, FALSE)
        r == createPatient(parsed.data, up)
        op == "POST /api/patients"
    IN  IF ~parsed.ok
        THEN /\ last' = Reply(op, "", 400, Undefined)
             /\ UNCHANGED <<startup, browser, inflight, loggedIn, now, tables, issued>>
        ELSE /\ CanIssue(PatientIds)
             /\ patients' = r.tbl
             /\ issued' = IF r.threw THEN issued ELSE issued \cup {r.ret}
             /\ last' = IF r.threw THEN Caught(op, "", 500, FALSE)
                        ELSE Reply(op, r.ret, 201, r.ret)
             /\ UNCHANGED <<startup, browser, inflight, loggedIn, now, users, appointments, procedures, billing, patientEvolutions>>

\* PATCH /api/patients/:id
PatchPatient(id, body, up) ==
    LET parsed == ZodParse(patientColumns, body, TRUE)
        r == updatePatient(id, parsed.data, up)
        op == "PATCH /api/patients/:id"
    IN  IF ~parsed.ok
        THEN /\ last' = OnPatient(Reply(op, id, 400, Undefined))
             /\ UNCHANGED <<startup, browser, inflight, loggedIn, now, tables, issued>>
        ELSE /\ patients' = r.tbl
             /\ last' = OnPatient(IF r.threw THEN Caught(op, id, 500, FALSE)
                                  ELSE IF r.ret = Undefined THEN Reply(op, id, 404, Undefined)
                                  ELSE Reply(op, id, 200, r.ret))
             /\ UNCHANGED <<startup, browser, inflight, loggedIn, now, users, appointments, procedures, billing, patientEvolutions, issued>>

\* DELETE /api/patients/:id behind a guard that lets only a logged-in
\* doctor through
DeletePatientDoctorOnly(id, up) ==
    LET r == deletePatient(id, up)
        op == "DELETE /api/patients/:id"
        allowed == \E u \in loggedIn : users[u].role = "doctor"
    IN  /\ patients' = IF allowed THEN r.tbl ELSE patients
        /\ last' = OnPatient(IF ~allowed THEN Reply(op, id, 403, Undefined)
                             ELSE IF r.threw THEN Caught(op, id, 500, FALSE)
                             ELSE IF r.ret = "false" THEN Reply(op, id, 404, r.ret)
                             ELSE Reply(op, id, 200, r.ret))
        /\ UNCHANGED <<startup, browser, inflight, loggedIn, now, users, appointments, procedures, billing, patientEvolutions, issued>>

\* DELETE /api/patients/:id
DeletePatient(id, up) ==
    LET r == deletePatient(id, up)
        op == "DELETE /api/patients/:id"
    IN  /\ patients' = r.tbl
        /\ last' = OnPatient(IF r.threw THEN Caught(op, id, 500, FALSE)
                             ELSE IF r.ret = "false" THEN Reply(op, id, 404, r.ret)
                             ELSE Reply(op, id, 200, r.ret))
        /\ UNCHANGED <<startup, browser, inflight, loggedIn, now, users, appointments, procedures, billing, patientEvolutions, issued>>

---------------------------------------------------------------------------
(* server/routes.ts: login, dashboard, appointments *)

loginSchema == [username |-> TextCol(TRUE), password |-> TextCol(TRUE)]

\* { password: _, ...userWithoutPassword } = user
WithoutPassword(user) == [f \in (DOMAIN user) \ {"password"} |-> user[f]]

\* POST /api/auth/login answering the stored user as it is
PostLoginWholeUser(body, up) ==
    LET op == "POST /api/auth/login"
        parsed == ZodParse(loginSchema, body, FALSE)
        user == getUserByUsername(parsed.data.username)
        ok == parsed.ok /\ up /\ user # Undefined
                        /\ users[user].password = parsed.data.password
    IN  /\ last' = IF ~parsed.ok THEN [Reply(op, "", 400, Undefined) EXCEPT !.leak = TRUE]
                   ELSE IF ~up THEN Caught(op, "", 400, TRUE)
                   ELSE IF ~ok THEN Reply(op, "", 401, user)
                   ELSE [Reply(op, "", 200, user) EXCEPT !.user = users[user]]
        /\ loggedIn' = IF ok THEN loggedIn \cup {user} ELSE loggedIn
        /\ UNCHANGED <<startup, browser, inflight, now, tables, issued>>

\* POST /api/auth/login turning away a user that is not active
PostLoginActiveOnly(body, up) ==
    LET op == "POST /api/auth/login"
        parsed == ZodParse(loginSchema, body, FALSE)
        user == getUserByUsername(parsed.data.username)
        ok == parsed.ok /\ up /\ user # Undefined
                        /\ users[user].password = parsed.data.password
                        /\ users[user].isActive
    IN  /\ last' = IF ~parsed.ok THEN [Reply(op, "", 400, Undefined) EXCEPT !.leak = TRUE]
                   ELSE IF ~up THEN Caught(op, "", 400, TRUE)
                   ELSE IF ~ok THEN Reply(op, "", 401, user)
                   ELSE [Reply(op, "", 200, user) EXCEPT !.user = WithoutPassword(users[user])]
        /\ loggedIn' = IF ok THEN loggedIn \cup {user} ELSE loggedIn
        /\ UNCHANGED <<startup, browser, inflight, now, tables, issued>>

\* POST /api/auth/login : one catch block answers 400 with error.message
PostLogin(body, up) ==
    LET op == "POST /api/auth/login"
        parsed == ZodParse(loginSchema, body, FALSE)
        user == getUserByUsername(parsed.data.username)
        ok == parsed.ok /\ up /\ user # Undefined
                        /\ users[user].password = parsed.data.password
    IN  /\ last' = IF ~parsed.ok THEN [Reply(op, "", 400, Undefined) EXCEPT !.leak = TRUE]
                   ELSE IF ~up THEN Caught(op, "", 400, TRUE)
                   ELSE IF ~ok THEN Reply(op, "", 401, user)
                   ELSE [Reply(op, "", 200, user) EXCEPT !.user = WithoutPassword(users[user])]
        /\ loggedIn' = IF ok THEN loggedIn \cup {user} ELSE loggedIn
        /\ UNCHANGED <<startup, browser, inflight, now, tables, issued>>

\* GET /api/users
GetUsers(role, up) ==
    LET op == "GET /api/users"
    IN  /\ IF ~up \/ RoleThrows(role)
           THEN last' = Caught(op, "", 500, FALSE)
           ELSE \E rows \in Orderings(getUsers(role)) : last' = Listed(op, "", rows)
        /\ UNCHANGED <<startup, browser, inflight, loggedIn, now, tables, issued>>

\* storage.updateUser(id, user), which no route calls: the maintenance of
\* the accounts
UpdateUser(id, user) ==
    /\ users' = updateUser(id, user, TRUE).tbl
    /\ UNCHANGED <<startup, browser, inflight, loggedIn, now, patients, appointments, procedures,
                   billing, patientEvolutions, issued, last>>

\* GET /api/dashboard/stats
GetDashboardStats(up) ==
    LET op == "GET /api/dashboard/stats"
    IN  /\ IF ~up THEN last' = Caught(op, "", 500, FALSE)
           ELSE \E stats \in getDashboardStats :
                    last' = [Reply(op, "", 200, "stats") EXCEPT !.stats = stats]
        /\ UNCHANGED <<startup, browser, inflight, loggedIn, now, tables, issued>>

\* req.query.x ? new Date(req.query.x) : undefined
DateOrUndefined(j) == IF Truthy(j) THEN NewDate(j) ELSE JUndef

\* an Invalid Date bound into the range condition cannot be serialized
RangeThrows(startDate, endDate) ==
    Truthy(startDate) /\ Truthy(endDate) /\ (startDate.n < 0 \/ endDate.n < 0)

\* GET /api/appointments
GetAppointments(startQ, endQ, up) ==
    LET op == "GET /api/appointments"
        startDate == DateOrUndefined(startQ)
        endDate == DateOrUndefined(endQ)
    IN  /\ IF ~up \/ RangeThrows(startDate, endDate)
           THEN last' = Caught(op, "", 500, FALSE)
           ELSE \E rows \in getAppointments(startDate, endDate) : last' = Listed(op, "", rows)
        /\ UNCHANGED <<startup, browser, inflight, loggedIn, now, tables, issued>>

\* GET /api/appointments/today
GetTodaysAppointments(up) ==
    LET op == "GET /api/appointments/today"
    IN  /\ IF ~up THEN last' = Caught(op, "", 500, FALSE)
           ELSE \E rows \in getTodaysAppointments : last' = Listed(op, "", rows)
        /\ UNCHANGED <<startup, browser, inflight, loggedIn, now, tables, issued>>

\* GET /api/appointments/:id
GetAppointment(id, up) ==
    LET op == "GET /api/appointments/:id"
    IN  /\ last' = IF ~up THEN Caught(op, id, 500, FALSE)
                   ELSE IF getAppointment(id) = Undefined THEN Reply(op, id, 404, Undefined)
                   ELSE Reply(op, id, 200, id)
        /\ UNCHANGED <<startup, browser, inflight, loggedIn, now, tables, issued>>

\* POST /api/appointments
PostAppointments(body, up) ==
    LET op == "POST /api/appointments"
        transformedData ==
            With(With(With(body, "appointmentDate", NewDate(Field(body, "appointmentDate"))),
                      "checkedInAt", DateOrUndefined(Field(body, "checkedInAt"))),
                 "completedAt", DateOrUndefined(Field(body, "completedAt")))
        parsed == ZodParse(appointmentColumns, transformedData, FALSE)
        r == createAppointment(parsed.data, up)
    IN  IF ~parsed.ok
        THEN /\ last' = Reply(op, "", 400, Undefined)
             /\ UNCHANGED <<startup, browser, inflight, loggedIn, now, tables, issued>>
        ELSE /\ CanIssue(AppointmentIds)
             /\ appointments' = r.tbl
             /\ issued' = IF r.threw THEN issued ELSE issued \cup {r.ret}
             /\ last' = IF r.threw THEN Caught(op, "", 500, FALSE)
                        ELSE Reply(op, r.ret, 201, r.ret)
             /\ UNCHANGED <<startup, browser, inflight, loggedIn, now, users, patients, procedures, billing, patientEvolutions>>

\* { ...body, ...(body.f && { f: new Date(body.f) }) }
WithDateIf(body, f) == WithIf(body, Truthy(Field(body, f)), f, NewDate(Field(body, f)))

\* PATCH /api/appointments/:id handing the payload to the store before
\* looking at the outcome of the validation
PatchAppointmentStoresFirst(id, body, up) ==
    LET op == "PATCH /api/appointments/:id"
        transformedData ==
            WithDateIf(WithDateIf(WithDateIf(body, "appointmentDate"), "checkedInAt"),
                       "completedAt")
        parsed == ZodParse(appointmentColumns, transformedData, TRUE)
        r == updateAppointment(id, parsed.data, up)
    IN  /\ appointments' = r.tbl
        /\ last' = IF ~parsed.ok THEN Reply(op, id, 400, Undefined)
                   ELSE IF r.threw THEN Caught(op, id, 500, FALSE)
                   ELSE IF r.ret = Undefined THEN Reply(op, id, 404, Undefined)
                   ELSE Reply(op, id, 200, r.ret)
        /\ UNCHANGED <<startup, browser, inflight, loggedIn, now, users, patients, procedures, billing, patientEvolutions, issued>>

\* PATCH /api/appointments/:id
PatchAppointment(id, body, up) ==
    LET op == "PATCH /api/appointments/:id"
        transformedData ==
            WithDateIf(WithDateIf(WithDateIf(body, "appointmentDate"), "checkedInAt"),
                       "completedAt")
        parsed == ZodParse(appointmentColumns, transformedData, TRUE)
        r == updateAppointment(id, parsed.data, up)
    IN  IF ~parsed.ok
        THEN /\ last' = Reply(op, id, 400, Undefined)
             /\ UNCHANGED <<startup, browser, inflight, loggedIn, now, tables, issued>>
        ELSE /\ appointments' = r.tbl
             /\ last' = IF r.threw THEN Caught(op, id, 500, FALSE)
                        ELSE IF r.ret = Undefined THEN Reply(op, id, 404, Undefined)
                        ELSE Reply(op, id, 200, r.ret)
             /\ UNCHANGED <<startup, browser, inflight, loggedIn, now, users, patients, procedures, billing, patientEvolutions, issued>>

\* DELETE /api/appointments/:id
DeleteAppointment(id, up) ==
    LET op == "DELETE /api/appointments/:id"
        r == deleteAppointment(id, up)
    IN  /\ appointments' = r.tbl
        /\ last' = IF r.threw THEN Caught(op, id, 500, FALSE)
                   ELSE IF r.ret = "false" THEN Reply(op, id, 404, r.ret)
                   ELSE Reply(op, id, 200, r.ret)
        /\ UNCHANGED <<startup, browser, inflight, loggedIn, now, users, patients, procedures, billing, patientEvolutions, issued>>

---------------------------------------------------------------------------
(* server/routes.ts: procedures, billing, patient evolutions *)

\* GET /api/procedures/:id
GetProcedure(id, up) ==
    LET op == "GET /api/procedures/:id"
    IN  /\ last' = IF ~up THEN Caught(op, id, 500, FALSE)
                   ELSE IF getProcedure(id) = Undefined THEN Reply(op, id, 404, Undefined)
                   ELSE Reply(op, id, 200, id)
        /\ UNCHANGED <<startup, browser, inflight, loggedIn, now, tables, issued>>

\* POST /api/procedures
PostProcedures(body, up) ==
    LET op == "POST /api/procedures"
        transformedData ==
            With(With(With(body, "scheduledDate", NewDate(Field(body, "scheduledDate"))),
                      "startTime", DateOrUndefined(Field(body, "startTime"))),
                 "endTime", DateOrUndefined(Field(body, "endTime")))
        parsed == ZodParse(procedureColumns, transformedData, FALSE)
        r == createProcedure(parsed.data, up)
    IN  IF ~parsed.ok
        THEN /\ last' = Reply(op, "", 400, Undefined)
             /\ UNCHANGED <<startup, browser, inflight, loggedIn, now, tables, issued>>
        ELSE /\ CanIssue(ProcedureIds)
             /\ procedures' = r.tbl
             /\ issued' = IF r.threw THEN issued ELSE issued \cup {r.ret}
             /\ last' = IF r.threw THEN Caught(op, "", 500, FALSE)
                        ELSE Reply(op, r.ret, 201, r.ret)
             /\ UNCHANGED <<startup, browser, inflight, loggedIn, now, users, patients, appointments, billing, patientEvolutions>>

\* PATCH /api/procedures/:id
PatchProcedure(id, body, up) ==
    LET op == "PATCH /api/procedures/:id"
        transformedData ==
            WithDateIf(WithDateIf(WithDateIf(body, "scheduledDate"), "startTime"), "endTime")
        parsed == ZodParse(procedureColumns, transformedData, TRUE)
        r == updateProcedure(id, parsed.data, up)
    IN  IF ~parsed.ok
        THEN /\ last' = Reply(op, id, 400, Undefined)
             /\ UNCHANGED <<startup, browser, inflight, loggedIn, now, tables, issued>>
        ELSE /\ procedures' = r.tbl
             /\ last' = IF r.threw THEN Caught(op, id, 500, FALSE)
                        ELSE IF r.ret = Undefined THEN Reply(op, id, 404, Undefined)
                        ELSE Reply(op, id, 200, r.ret)
             /\ UNCHANGED <<startup, browser, inflight, loggedIn, now, users, patients, appointments, billing, patientEvolutions, issued>>

\* GET /api/billing/:id
GetBillingRecord(id, up) ==
    LET op == "GET /api/billing/:id"
    IN  /\ last' = IF ~up THEN Caught(op, id, 500, FALSE)
                   ELSE IF getBillingRecord(id) = Undefined THEN Reply(op, id, 404, Undefined)
                   ELSE Reply(op, id, 200, id)
        /\ UNCHANGED <<startup, browser, inflight, loggedIn, now, tables, issued>>

\* POST /api/billing
PostBilling(body, up) ==
    LET op == "POST /api/billing"
        transformedData ==
            With(With(With(body, "billingDate",
                           IF Truthy(Field(body, "billingDate"))
                           THEN NewDate(Field(body, "billingDate")) ELSE JDate(now)),
                      "dueDate", NewDate(Field(body, "dueDate"))),
                 "paidDate", DateOrUndefined(Field(body, "paidDate")))
        parsed == ZodParse(billingColumns, transformedData, FALSE)
        r == createBillingRecord(parsed.data, up)
    IN  IF ~parsed.ok
        THEN /\ last' = Reply(op, "", 400, Undefined)
             /\ UNCHANGED <<startup, browser, inflight, loggedIn, now, tables, issued>>
        ELSE /\ CanIssue(BillingIds)
             /\ billing' = r.tbl
             /\ issued' = IF r.threw THEN issued ELSE issued \cup {r.ret}
             /\ last' = IF r.threw THEN Caught(op, "", 500, FALSE)
                        ELSE Reply(op, r.ret, 201, r.ret)
             /\ UNCHANGED <<startup, browser, inflight, loggedIn, now, users, patients, appointments, procedures, patientEvolutions>>

\* PATCH /api/billing/:id : the body is validated as it arrives
PatchBilling(id, body, up) ==
    LET op == "PATCH /api/billing/:id"
        parsed == ZodParse(billingColumns, body, TRUE)
        r == updateBillingRecord(id, parsed.data, up)
    IN  IF ~parsed.ok
        THEN /\ last' = Reply(op, id, 400, Undefined)
             /\ UNCHANGED <<startup, browser, inflight, loggedIn, now, tables, issued>>
        ELSE /\ billing' = r.tbl
             /\ last' = IF r.threw THEN Caught(op, id, 500, FALSE)
                        ELSE IF r.ret = Undefined THEN Reply(op, id, 404, Undefined)
                        ELSE Reply(op, id, 200, r.ret)
             /\ UNCHANGED <<startup, browser, inflight, loggedIn, now, users, patients, appointments, procedures, patientEvolutions, issued>>

\* GET /api/patient-evolution/:id
GetPatientEvolution(id, up) ==
    LET op == "GET /api/patient-evolution/:id"
    IN  /\ last' = IF ~up THEN Caught(op, id, 500, FALSE)
                   ELSE IF getPatientEvolution(id) = Undefined THEN Reply(op, id, 404, Undefined)
                   ELSE Reply(op, id, 200, id)
        /\ UNCHANGED <<startup, browser, inflight, loggedIn, now, tables, issued>>

\* POST /api/patient-evolutions
PostPatientEvolutions(body, up) ==
    LET op == "POST /api/patient-evolutions"
        transformedData ==
            With(body, "evolutionDate",
                 IF Truthy(Field(body, "evolutionDate"))
                 THEN NewDate(Field(body, "evolutionDate")) ELSE JDate(now))
        parsed == ZodParse(patientEvolutionColumns, transformedData, FALSE)
        r == createPatientEvolution(parsed.data, up)
    IN  IF ~parsed.ok
        THEN /\ last' = Reply(op, "", 400, Undefined)
             /\ UNCHANGED <<startup, browser, inflight, loggedIn, now, tables, issued>>
        ELSE /\ CanIssue(EvolutionIds)
             /\ patientEvolutions' = r.tbl
             /\ issued' = IF r.threw THEN issued ELSE issued \cup {r.ret}
             /\ last' = IF r.threw THEN Caught(op, "", 500, FALSE)
                        ELSE Reply(op, r.ret, 201, r.ret)
             /\ UNCHANGED <<startup, browser, inflight, loggedIn, now, users, patients, appointments, procedures, billing>>

\* PATCH /api/patient-evolutions/:id
PatchPatientEvolution(id, body, up) ==
    LET op == "PATCH /api/patient-evolutions/:id"
        transformedData == WithDateIf(body, "evolutionDate")
        parsed == ZodParse(patientEvolutionColumns, transformedData, TRUE)
        r == updatePatientEvolution(id, parsed.data, up)
    IN  IF ~parsed.ok
        THEN /\ last' = Reply(op, id, 400, Undefined)
             /\ UNCHANGED <<startup, browser, inflight, loggedIn, now, tables, issued>>
        ELSE /\ patientEvolutions' = r.tbl
             /\ last' = IF r.threw THEN Caught(op, id, 500, FALSE)
                        ELSE IF r.ret = Undefined THEN Reply(op, id, 404, Undefined)
                        ELSE Reply(op, id, 200, r.ret)
             /\ UNCHANGED <<startup, browser, inflight, loggedIn, now, users, patients, appointments, procedures, billing, issued>>

\* DELETE /api/patient-evolutions/:id
DeletePatientEvolution(id, up) ==
    LET op == "DELETE /api/patient-evolutions/:id"
        r == deletePatientEvolution(id, up)
    IN  /\ patientEvolutions' = r.tbl
        /\ last' = IF r.threw THEN Caught(op, id, 500, FALSE)
                   ELSE IF r.ret = "false" THEN Reply(op, id, 404, r.ret)
                   ELSE Reply(op, id, 200, r.ret)
        /\ UNCHANGED <<startup, browser, inflight, loggedIn, now, users, patients, appointments, procedures, billing, issued>>

---------------------------------------------------------------------------
(* Requests in flight: a PATCH or DELETE handler runs up to its `await`,   *)
(* the store executes the UPDATE or DELETE statement, the handler resumes  *)
(* and answers.  Other requests may be served between these steps.         *)

Connections == 1..MaxConnections

NoFields == [f \in {} |-> 0]

\* pc of a PATCH: idle, sent (the statement is on its way), executed or
\* threw, answered; of a DELETE: deleting, deleted or delete threw, delete
\* answered; data: updateData; history: sent (the validated payload), before
\* (the row when the request arrived), seq (the statement's place in the
\* store's order), status (of the answer)
Idle ==
    [pc |-> "idle", kind |-> "", id |-> "", sent |-> NoFields, data |-> NoFields,
     before |-> NoFields, seq |-> 0, ret |-> Undefined, status |-> 0]

Columns(kind) ==
    CASE kind = "patients"          -> patientColumns
      [] kind = "appointments"      -> appointmentColumns
      [] kind = "procedures"        -> procedureColumns
      [] kind = "billing"           -> billingColumns
      [] kind = "patientEvolutions" -> patientEvolutionColumns

\* the PATCH handler of a table up to the storage call: dates are made of
\* the date fields that are given, then schema.partial().parse
PatchParse(kind, body) ==
    LET transformedData ==
            CASE kind = "appointments" ->
                   WithDateIf(WithDateIf(WithDateIf(body, "appointmentDate"), "checkedInAt"),
                              "completedAt")
              [] kind = "procedures" ->
                   WithDateIf(WithDateIf(WithDateIf(body, "scheduledDate"), "startTime"),
                              "endTime")
              [] kind = "patientEvolutions" -> WithDateIf(body, "evolutionDate")
              [] OTHER -> body
    IN  ZodParse(Columns(kind), transformedData, TRUE)

\* delete updateData.x
Deleted(kind) ==
    CASE kind = "patients"   -> {"allergies", "medicalHistory"}
      [] kind = "procedures" -> {"medications"}
      [] OTHER               -> {}

\* updateData built from the whole record, absent columns at their defaults
UpdateDataWithDefaults(kind, insert) ==
    LET cols == Columns(kind)
        full == [c \in (DOMAIN insert) \cup {d \in DOMAIN cols : cols[d].dflt # JUndef} |->
                    IF c \in DOMAIN insert THEN insert[c] ELSE DefaultNative(cols[c])]
    IN  Without(With(full, "updatedAt", now), Deleted(kind))

\* const updateData = { ...insert, updatedAt: new Date() } and its deletes
UpdateData(kind, insert) == Without(With(insert, "updatedAt", now), Deleted(kind))

\* the statement writing the row whether or not one is stored under the id
UpdateStatementUpserting(kind, id, updateData, up) ==
    LET tbl == Table(kind)
        hit == id \in DOMAIN tbl
        row == IF hit THEN UpdateRow(tbl[id], updateData) ELSE updateData
        threw == \/ ~up
                 \/ BadParameter(Columns(kind), updateData)
                 \/ hit /\ Violates(Columns(kind), row)
    IN  Outcome(threw,
                IF threw THEN tbl ELSE Put(tbl, id, row),
                IF threw THEN Undefined ELSE id)

\* db.update(table).set(updateData).where(eq(table.id, id)).returning() :
\* one statement, executed by the store at once
UpdateStatement(kind, id, updateData, up) ==
    LET tbl == Table(kind)
        hit == id \in DOMAIN tbl
        row == IF hit THEN UpdateRow(tbl[id], updateData) ELSE updateData
        threw == \/ ~up
                 \/ BadParameter(Columns(kind), updateData)
                 \/ hit /\ Violates(Columns(kind), row)
    IN  Outcome(threw,
                IF threw \/ ~hit THEN tbl ELSE Put(tbl, id, row),
                IF threw \/ ~hit THEN Undefined ELSE id)

PatchOp(kind) ==
    CASE kind = "patients"          -> "PATCH /api/patients/:id"
      [] kind = "appointments"      -> "PATCH /api/appointments/:id"
      [] kind = "procedures"        -> "PATCH /api/procedures/:id"
      [] kind = "billing"           -> "PATCH /api/billing/:id"
      [] kind = "patientEvolutions" -> "PATCH /api/patient-evolutions/:id"

\* the request arrives on connection i: a payload that fails the validation
\* is answered 400 at once, a valid one goes to the store
PatchReceive(i, kind, id, body) ==
    LET parsed == PatchParse(kind, body)
    IN  /\ inflight[i].pc = "idle"
        /\ IF ~parsed.ok
           THEN /\ last' = Reply(PatchOp(kind), id, 400, Undefined)
                /\ inflight' = [inflight EXCEPT ![i].pc = "answered", ![i].status = 400]
           ELSE /\ inflight' = [inflight EXCEPT ![i] =
                       [pc |-> "sent", kind |-> kind, id |-> id, sent |-> parsed.data,
                        data |-> UpdateData(kind, parsed.data),
                        before |-> IF id \in DOMAIN Table(kind) THEN Table(kind)[id]
                                   ELSE NoFields,
                        seq |-> 0, ret |-> Undefined, status |-> 0]]
                /\ UNCHANGED last
        /\ UNCHANGED <<startup, browser, loggedIn, now, tables, issued>>

\* the number of statements the store has executed for the connections
Executed == Cardinality({ j \in Connections : inflight[j].seq > 0 })

\* the store executes the statement of connection i
PatchStatement(i) ==
    LET q == inflight[i]
        r == UpdateStatement(q.kind, q.id, q.data, TRUE)
    IN  /\ q.pc = "sent"
        /\ inflight' = [inflight EXCEPT ![i].pc = IF r.threw THEN "threw" ELSE "executed",
                                        ![i].seq = Executed + 1,
                                        ![i].ret = r.ret]
        /\ patients' = IF q.kind = "patients" THEN r.tbl ELSE patients
        /\ appointments' = IF q.kind = "appointments" THEN r.tbl ELSE appointments
        /\ procedures' = IF q.kind = "procedures" THEN r.tbl ELSE procedures
        /\ billing' = IF q.kind = "billing" THEN r.tbl ELSE billing
        /\ patientEvolutions' = IF q.kind = "patientEvolutions" THEN r.tbl
                                ELSE patientEvolutions
        /\ UNCHANGED <<startup, browser, loggedIn, now, users, issued, last>>

\* the handler of connection i resumes and answers
PatchRespond(i) ==
    LET q == inflight[i]
        op == PatchOp(q.kind)
    IN  /\ q.pc \in {"executed", "threw"}
        /\ last' = IF q.pc = "threw" THEN Caught(op, q.id, 500, FALSE)
                   ELSE IF q.ret = Undefined THEN Reply(op, q.id, 404, Undefined)
                   ELSE Reply(op, q.id, 200, q.ret)
        /\ inflight' = [inflight EXCEPT ![i].pc = "answered", ![i].status = last'.status]
        /\ UNCHANGED <<startup, browser, loggedIn, now, tables, issued>>

DeleteRoute(kind) ==
    CASE kind = "appointments"      -> "DELETE /api/appointments/:id"
      [] kind = "patientEvolutions" -> "DELETE /api/patient-evolutions/:id"

\* db.delete(table).where(eq(table.id, id)) : one statement
DeleteFrom(kind, id, up) ==
    CASE kind = "appointments"      -> deleteAppointment(id, up)
      [] kind = "patientEvolutions" -> deletePatientEvolution(id, up)

\* the DELETE request arrives on connection i and goes to the store
DeleteReceive(i, kind, id) ==
    /\ inflight[i].pc = "idle"
    /\ inflight' = [inflight EXCEPT ![i] =
           [Idle EXCEPT !.pc = "deleting", !.kind = kind, !.id = id,
                        !.before = IF id \in DOMAIN Table(kind) THEN Table(kind)[id]
                                   ELSE NoFields]]
    /\ UNCHANGED <<startup, browser, loggedIn, now, tables, issued, last>>

\* the store executes the DELETE statement of connection i
DeleteStatement(i) ==
    LET q == inflight[i]
        r == DeleteFrom(q.kind, q.id, TRUE)
    IN  /\ q.pc = "deleting"
        /\ inflight' = [inflight EXCEPT ![i].pc = IF r.threw THEN "delete threw" ELSE "deleted",
                                        ![i].seq = Executed + 1,
                                        ![i].ret = r.ret]
        /\ appointments' = IF q.kind = "appointments" THEN r.tbl ELSE appointments
        /\ patientEvolutions' = IF q.kind = "patientEvolutions" THEN r.tbl
                                ELSE patientEvolutions
        /\ UNCHANGED <<startup, browser, loggedIn, now, users, patients, procedures, billing, issued,
                       last>>

\* the DELETE handler of connection i resumes and answers
DeleteRespond(i) ==
    LET q == inflight[i]
        op == DeleteRoute(q.kind)
    IN  /\ q.pc \in {"deleted", "delete threw"}
        /\ last' = IF q.pc = "delete threw" THEN Caught(op, q.id, 500, FALSE)
                   ELSE IF q.ret = "false" THEN Reply(op, q.id, 404, q.ret)
                   ELSE Reply(op, q.id, 200, q.ret)
        /\ inflight' = [inflight EXCEPT ![i].pc = "delete answered",
                                        ![i].status = last'.status]
        /\ UNCHANGED <<startup, browser, loggedIn, now, tables, issued>>

---------------------------------------------------------------------------
(* client: the query cache of the browser and the mutations of the pages. *)
(* A query is cached under its key, an array; invalidateQueries marks as   *)
(* stale every cached query whose key begins with the key it is given.     *)

QueryKeys ==
    { <<"/api/appointments">>, <<"/api/appointments/today">>, <<"/api/dashboard/stats">>,
      <<"/api/patients">>, <<"/api/patients/search", "mar">> }

NothingCached == [key \in QueryKeys |-> [state |-> "none", data |-> <<>>]]

NoMutation == [mutation |-> "", id |-> "", data |-> <<>>]

\* the appointments a listing shows, each with its patient and doctor
AppointmentRows(ids) ==
    [ id \in ids |-> [appointment |-> appointments[id],
                      patient |-> patients[appointments[id].patientId],
                      doctor |-> users[appointments[id].doctorId]] ]

PatientRows(ids) == [id \in ids |-> patients[id]]

\* what the route a key names answers: the lists it may return and the rows
\* they show
Answer(key) ==
    CASE key = <<"/api/appointments">> ->
           LET lists == getAppointments(JUndef, JUndef)
           IN  [lists |-> lists, rows |-> AppointmentRows(UNION { Range(q) : q \in lists })]
      [] key = <<"/api/appointments/today">> ->
           LET lists == getTodaysAppointments
           IN  [lists |-> lists, rows |-> AppointmentRows(UNION { Range(q) : q \in lists })]
      [] key = <<"/api/dashboard/stats">> ->
           [lists |-> getDashboardStats, rows |-> <<>>]
      [] key = <<"/api/patients">> ->
           LET lists == getPatients(DefaultLimit, DefaultOffset)
           IN  [lists |-> lists, rows |-> PatientRows(UNION { Range(q) : q \in lists })]
      [] OTHER ->
           LET ids == searchPatients(key[2])
           IN  [lists |-> ids, rows |-> PatientRows(ids)]

\* useQuery({ queryKey }): a query that is not cached, or is stale, is
\* fetched from the route its key names
useQuery(key) ==
    /\ browser.cache[key].state # "fresh"
    /\ browser' = [browser EXCEPT !.cache[key] = [state |-> "fresh", data |-> Answer(key)]]
    /\ UNCHANGED <<startup, inflight, loggedIn, now, tables, issued, last>>

IsPrefix(p, q) == Len(p) <= Len(q) /\ SubSeq(q, 1, Len(p)) = p

\* queryClient.invalidateQueries({ queryKey }) for each queryKey of keys
invalidateQueries(keys) ==
    [ key \in QueryKeys |->
        IF browser.cache[key].state = "fresh" /\ \E queryKey \in keys : IsPrefix(queryKey, key)
        THEN [browser.cache[key] EXCEPT !.state = "stale"]
        ELSE browser.cache[key] ]

\* mutation.mutate(variables): the request leaves the browser
mutate(mutation, id, data) ==
    /\ browser.pending = NoMutation
    /\ browser' = [browser EXCEPT !.pending = [mutation |-> mutation, id |-> id, data |-> data]]
    /\ last' = Reply("", "", 0, Undefined)
    /\ UNCHANGED <<startup, inflight, loggedIn, now, tables, issued>>

\* mutationFn: the route serves the request of the pending mutation
mutationFn ==
    LET m == browser.pending
    IN  /\ m # NoMutation /\ last.status = 0
        /\ CASE m.mutation = "createPatientMutation"     -> PostPatients(m.data, TRUE)
             [] m.mutation = "updatePatientMutation"     -> PatchPatient(m.id, m.data, TRUE)
             [] m.mutation = "createAppointmentMutation" -> PostAppointments(m.data, TRUE)
             [] m.mutation = "updateAppointmentMutation" -> PatchAppointment(m.id, m.data, TRUE)
             [] m.mutation = "checkInMutation" ->
                  PatchAppointment(m.id, [status |-> JStr("checked_in"),
                                          checkedInAt |-> JIso(now)], TRUE)

\* the queries the onSuccess of a mutation invalidates
Invalidates(mutation) ==
    CASE mutation = "createPatientMutation" ->
           { <<"/api/patients">>, <<"/api/dashboard/stats">> }
      [] mutation = "updatePatientMutation" ->
           { <<"/api/patients">> }
      [] mutation = "createAppointmentMutation" ->
           { <<"/api/appointments">>, <<"/api/appointments/today">>, <<"/api/dashboard/stats">> }
      [] mutation = "updateAppointmentMutation" ->
           { <<"/api/appointments">>, <<"/api/appointments/today">>, <<"/api/dashboard/stats">> }
      [] mutation = "checkInMutation" ->
           { <<"/api/appointments">> }

\* the response arrives: onSuccess when it is a 2xx, onError (a toast)
\* otherwise
onSettled ==
    /\ browser.pending # NoMutation /\ last.status # 0
    /\ browser' = [cache |-> IF last.status \in 200..299
                             THEN invalidateQueries(Invalidates(browser.pending.mutation))
                             ELSE browser.cache,
                   pending |-> NoMutation]
    /\ UNCHANGED <<startup, inflight, loggedIn, now, tables, issued, last>>

---------------------------------------------------------------------------
(* Requests the model issues against the patient routes *)

Maria == [firstName |-> JStr("Maria"), lastName |-> JStr("Silva"),
          dateOfBirth |-> JStr("1990-01-01"), phone |-> JStr("5551234")]

PatientPostBodies ==
    { Maria,
      [firstName |-> JStr("Ana"), lastName |-> JStr("Souza"),
       dateOfBirth |-> JStr("1985-05-05"), phone |-> JStr("5551234"),
       email |-> JStr("m@x.io"), medicalHistory |-> JArr(<<"gastritis">>),
       allergies |-> JArr(<<>>), medications |-> JArr(<<"omeprazole">>)],
      [firstName |-> JStr("Maria"), lastName |-> JStr("Silva"),
       dateOfBirth |-> JStr("1990-01-01")],
      [firstName |-> JNum(7), lastName |-> JStr("Silva"),
       dateOfBirth |-> JStr("1990-01-01"), phone |-> JStr("5551234")] }

PatientPatchBodies ==
    { [firstName |-> JStr("Ana"), medicalHistory |-> JArr(<<"ulcer">>),
       allergies |-> JArr(<<"latex">>), medications |-> JArr(<<"ibuprofen">>)],
      [isActive |-> JBool(TRUE)],
      [isActive |-> JStr("yes")] }

Queries == { JStr("mar"), JStr("SILVA"), JStr("512"), JStr("xyz"), JStr("") }

\* ?limit= and ?offset= : not given, 0 and 1
PageParams == { JUndef, JNum(0), JNum(1) }

---------------------------------------------------------------------------
(* Start-up and the specification of the patient routes *)

\* the runs of initializeDefaults: pc is idle, select (the check is on its
\* way), insert doctor, insert receptionist, done or rejected; history:
\* caught (the catch block ran), failed (the store failed a statement)
Runs == 1..MaxRuns

NotStarted == [pc |-> "idle", caught |-> FALSE, failed |-> FALSE]

Completed == [pc |-> "done", caught |-> FALSE, failed |-> FALSE]

\* the rows initializeDefaults inserts into an empty users table
DefaultUser(id, username, fullName, email, role) ==
    [id |-> id, username |-> username, password |-> "password", fullName |-> fullName,
     email |-> email, role |-> role, isActive |-> TRUE, createdAt |-> StartTime]

DefaultUsers ==
    [ u \in {"u1", "u2"} |->
        IF u = "u1"
        THEN DefaultUser("u1", "doctor", "Dr. Sarah Smith", "doctor@gastromed.com", "doctor")
        ELSE DefaultUser("u2", "receptionist", "Jane Doe", "receptionist@gastromed.com",
                         "receptionist") ]

NoRows == [x \in {} |-> x]

Init ==
    /\ now = StartTime
    /\ users = DefaultUsers
    /\ patients = NoRows
    /\ appointments = NoRows
    /\ procedures = NoRows
    /\ billing = NoRows
    /\ patientEvolutions = NoRows
    /\ issued = {}
    /\ last = Reply("", "", 0, Undefined)
    /\ loggedIn = {}
    /\ inflight = [i \in Connections |-> Idle]
    /\ browser = [cache |-> NothingCached, pending |-> NoMutation]
    /\ startup = [r \in Runs |-> Completed]

\* the clock advances
Tick ==
    /\ now < StartTime + MaxTime
    /\ now' = now + 1
    /\ UNCHANGED <<startup, browser, inflight, loggedIn, tables, issued, last>>

\* the patient routes, the store answering (up) or failing
PatientNext(up) ==
    \/ \E body \in PatientPostBodies : PostPatients(body, up)
    \/ \E id \in PatientIds, body \in PatientPatchBodies : PatchPatient(id, body, up)
    \/ \E id \in PatientIds : DeletePatient(id, up)
    \/ \E id \in PatientIds : GetPatient(id, up)
    \/ \E limitQ \in PageParams, offsetQ \in PageParams : GetPatients(limitQ, offsetQ, up)
    \/ \E q \in Queries : SearchPatients(q, up)

Next == Tick \/ PatientNext(TRUE)

Spec == Init /\ [][Next]_vars

---------------------------------------------------------------------------
(* The appointment book: one patient, appointments around the boundaries  *)
(* of the current day, the day's list and the dashboard                   *)

\* a valid appointment for patient p1 with doctor u1 at instant t
Visit(t) ==
    [patientId |-> JStr("p1"), doctorId |-> JStr("u1"), appointmentDate |-> JIso(t),
     type |-> JStr("consultation"), reason |-> JStr("checkup"), createdBy |-> JStr("u2")]

\* the last instant of yesterday, the first and the last instant of today
\* (the clock stays within the first day), the first instant of tomorrow
AppointmentTimes ==
    { StartTime - 1, StartTime, StartTime + DayLen - 1, StartTime + DayLen }

AppointmentPostBodies == { Visit(t) : t \in AppointmentTimes }

AppointmentPatchBodies ==
    { [status |-> JStr("completed")],
      [appointmentDate |-> JIso(StartTime + DayLen)] }

RangeParams == { JUndef, JIso(StartTime), JStr("soon") }

AppointmentNext ==
    \/ PostPatients(Maria, TRUE)
    \/ \E body \in AppointmentPostBodies : PostAppointments(body, TRUE)
    \/ \E id \in AppointmentIds, body \in AppointmentPatchBodies :
          PatchAppointment(id, body, TRUE)
    \/ \E id \in AppointmentIds : DeleteAppointment(id, TRUE)
    \/ \E id \in AppointmentIds : GetAppointment(id, TRUE)
    \/ \E startQ \in RangeParams, endQ \in RangeParams : GetAppointments(startQ, endQ, TRUE)
    \/ GetTodaysAppointments(TRUE)
    \/ GetDashboardStats(TRUE)

NextAppointments == Tick \/ AppointmentNext

SpecAppointments == Init /\ [][NextAppointments]_vars

\* cancellations: appointments are booked, looked up and deleted
CancellationNext ==
    \/ PostPatients(Maria, TRUE)
    \/ \E t \in {StartTime, StartTime + 1} : PostAppointments(Visit(t), TRUE)
    \/ \E id \in AppointmentIds : DeleteAppointment(id, TRUE)
    \/ \E id \in AppointmentIds : GetAppointment(id, TRUE)

NextCancellations == Tick \/ CancellationNext

SpecCancellations == Init /\ [][NextCancellations]_vars

---------------------------------------------------------------------------
(* The ledger: one patient, billing records paid or pending around the    *)
(* first instant of the current month, and the dashboard                  *)

\* a valid billing record for patient p1
Invoice(amount) ==
    [patientId |-> JStr("p1"), description |-> JStr("consultation"),
     amount |-> JDec(amount), patientResponsibility |-> JDec(amount),
     dueDate |-> JIso(StartTime + 1)]

\* the last instant of the previous month, and the first of the current one
PaidTimes == { StartTime - 1, StartTime }

BillingPostBodies ==
    { Invoice(150), With(Invoice(150), "status", JStr("paid")) }
    \cup { With(With(Invoice(a), "status", JStr(s)), "paidDate", JIso(t)) :
             a \in {80}, s \in {"paid", "pending"}, t \in PaidTimes }

BillingPatchBodies ==
    { [status |-> JStr("paid")],
      [paidDate |-> JIso(StartTime)],
      [amount |-> JStr("free")] }

BillingNext ==
    \/ PostPatients(Maria, TRUE)
    \/ \E body \in BillingPostBodies : PostBilling(body, TRUE)
    \/ \E id \in BillingIds, body \in BillingPatchBodies : PatchBilling(id, body, TRUE)
    \/ GetDashboardStats(TRUE)

NextBilling == Tick \/ BillingNext

SpecBilling == Init /\ [][NextBilling]_vars

---------------------------------------------------------------------------
(* The clinic: one record of each kind is registered, then amended; the   *)
(* requests carry valid and invalid payloads                              *)

Colonoscopy ==
    [appointmentId |-> JStr("a1"), patientId |-> JStr("p1"), doctorId |-> JStr("u1"),
     procedureType |-> JStr("Colonoscopy"), scheduledDate |-> JIso(StartTime + 1),
     medications |-> JArr(<<"propofol">>)]

Note ==
    [patientId |-> JStr("p1"), doctorId |-> JStr("u1"),
     chiefComplaint |-> JStr("abdominal pain")]

\* a payload and the same payload without one of its fields
Lacking(body, f) == [g \in (DOMAIN body) \ {f} |-> body[g]]

ClinicPatientPosts     == { Maria, Lacking(Maria, "phone") }
ClinicAppointmentPosts == { Visit(StartTime),
                            With(Visit(StartTime), "appointmentDate", JStr("soon")),
                            With(Visit(StartTime), "type", JStr("surgery")) }
ClinicProcedurePosts   == { Colonoscopy, Lacking(Colonoscopy, "procedureType") }
ClinicBillingPosts     == { Invoice(150), Lacking(Invoice(150), "dueDate") }
ClinicEvolutionPosts   == { Note, With(Note, "plan", JNum(1)) }

ClinicPatientPatches ==
    { [firstName |-> JStr("Ana"), medicalHistory |-> JArr(<<"ulcer">>),
       allergies |-> JArr(<<"latex">>), medications |-> JArr(<<"ibuprofen">>)],
      [isActive |-> JStr("yes")] }
ClinicAppointmentPatches ==
    { [status |-> JStr("checked_in"), checkedInAt |-> JIso(StartTime + 1)],
      [status |-> JStr("arrived")],
      [appointmentDate |-> JStr("soon")] }
ClinicProcedurePatches ==
    { [status |-> JStr("completed"), medications |-> JArr(<<"midazolam">>)],
      [status |-> JStr("done")] }
ClinicBillingPatches ==
    { [status |-> JStr("paid"), paymentMethod |-> JStr("card")],
      [paidDate |-> JIso(StartTime)],
      [amount |-> JNum(150)] }
ClinicEvolutionPatches ==
    { [plan |-> JStr("diet"), evolutionDate |-> JIso(StartTime)],
      [plan |-> JNum(1)] }

\* the registrations: each kind once, in the order the references need
ClinicRegister ==
    \/ patients = NoRows /\ \E body \in ClinicPatientPosts : PostPatients(body, TRUE)
    \/ /\ patients # NoRows /\ appointments = NoRows
       /\ \E body \in ClinicAppointmentPosts : PostAppointments(body, TRUE)
    \/ /\ appointments # NoRows /\ procedures = NoRows
       /\ \E body \in ClinicProcedurePosts : PostProcedures(body, TRUE)
    \/ /\ procedures # NoRows /\ billing = NoRows
       /\ \E body \in ClinicBillingPosts : PostBilling(body, TRUE)
    \/ /\ billing # NoRows /\ patientEvolutions = NoRows
       /\ \E body \in ClinicEvolutionPosts : PostPatientEvolutions(body, TRUE)

\* the amendments, once every kind is registered
ClinicAmend ==
    /\ patientEvolutions # NoRows
    /\ \/ \E body \in ClinicPatientPatches : PatchPatient("p1", body, TRUE)
       \/ \E body \in ClinicAppointmentPatches : PatchAppointment("a1", body, TRUE)
       \/ \E body \in ClinicProcedurePatches : PatchProcedure("r1", body, TRUE)
       \/ \E body \in ClinicBillingPatches : PatchBilling("b1", body, TRUE)
       \/ \E body \in ClinicEvolutionPatches : PatchPatientEvolution("e1", body, TRUE)

NextClinic == Tick \/ ClinicRegister \/ ClinicAmend

SpecClinic == Init /\ [][NextClinic]_vars

---------------------------------------------------------------------------
(* The store failing: the login and the patient routes while the database *)
(* answers or every query rejects                                         *)

LoginBodies ==
    { [username |-> JStr("doctor"), password |-> JStr("password")],
      [username |-> JStr("doctor"), password |-> JStr("guess")],
      [username |-> JStr("doctor"), password |-> JStr("Password")],
      [username |-> JStr("doctor"), password |-> JStr("")],
      [username |-> JStr("Doctor"), password |-> JStr("password")],
      [username |-> JStr("receptionist"), password |-> JStr("password")],
      [username |-> JStr("nobody"), password |-> JStr("password")],
      [username |-> JStr("doctor"), password |-> JNum(1)],
      [username |-> JStr("doctor")] }

FaultsNext(up) ==
    \/ \E body \in LoginBodies : PostLogin(body, up)
    \/ PatientNext(up)

NextFaults == Tick \/ \E up \in BOOLEAN : FaultsNext(up)

SpecFaults == Init /\ [][NextFaults]_vars

---------------------------------------------------------------------------
(* Payments: a bill is raised and marked paid the way the billing page    *)
(* does it, an appointment is booked and moved; every date travels as an  *)
(* ISO-8601 string                                                        *)

\* handleMarkAsPaid: { status: 'paid', paidDate: new Date(), paymentMethod }
\* after JSON.stringify, the Date being the instant t
MarkAsPaid(t) ==
    [status |-> JStr("paid"), paidDate |-> JIso(t), paymentMethod |-> JStr("Cash")]

PaymentPostBodies == { Invoice(150), With(Invoice(150), "paidDate", JIso(StartTime)) }

Reschedule(t) == [appointmentDate |-> JIso(t)]

PaymentNext ==
    \/ PostPatients(Maria, TRUE)
    \/ \E body \in PaymentPostBodies : PostBilling(body, TRUE)
    \/ \E id \in BillingIds : PatchBilling(id, MarkAsPaid(now), TRUE)
    \/ PostAppointments(Visit(StartTime), TRUE)
    \/ \E id \in AppointmentIds : PatchAppointment(id, Reschedule(StartTime + 1), TRUE)

NextPayments == Tick \/ PaymentNext

SpecPayments == Init /\ [][NextPayments]_vars

---------------------------------------------------------------------------
(* The status of an appointment: one appointment is booked, then its      *)
(* status is set, again and again, to values inside and outside the enum  *)

StatusValues == appointmentStatusEnum \cup {"arrived"}

StatusPatchBodies ==
    { [status |-> JStr(s)] : s \in StatusValues }
    \cup { [status |-> JStr("completed"), completedAt |-> JIso(StartTime)] }

StatusNext ==
    \/ patients = NoRows /\ PostPatients(Maria, TRUE)
    \/ appointments = NoRows /\ PostAppointments(Visit(StartTime), TRUE)
    \/ \E id \in AppointmentIds, body \in StatusPatchBodies : PatchAppointment(id, body, TRUE)

NextStatus == Tick \/ StatusNext

SpecStatus == Init /\ [][NextStatus]_vars

---------------------------------------------------------------------------
(* The login desk: credentials are tried while patients are registered and *)
(* deactivated                                                             *)

LoginNext ==
    \/ \E body \in LoginBodies, up \in BOOLEAN : PostLogin(body, up)
    \/ PostPatients(Maria, TRUE)
    \/ \E id \in PatientIds : DeletePatient(id, TRUE)
    \/ \E id \in PatientIds : GetPatient(id, TRUE)

NextLogin == Tick \/ LoginNext

SpecLogin == Init /\ [][NextLogin]_vars

---------------------------------------------------------------------------
(* The open door: requests of every kind arrive before any login, after a  *)
(* doctor's login, after a receptionist's login and after a failed one     *)

Visitors ==
    { [username |-> JStr("doctor"), password |-> JStr("password")],
      [username |-> JStr("receptionist"), password |-> JStr("password")],
      [username |-> JStr("doctor"), password |-> JStr("guess")] }

Rename == [firstName |-> JStr("Ana")]
CheckIn == [status |-> JStr("checked_in")]
Complete == [status |-> JStr("completed")]
Settle == [status |-> JStr("paid"), paymentMethod |-> JStr("card")]
Plan == [plan |-> JStr("diet")]

\* each kind is registered once, in the order the references need; a patch
\* or a delete may come at any time, before its target exists too
OpenWrites ==
    \/ patients = NoRows /\ PostPatients(Maria, TRUE)
    \/ appointments = NoRows /\ PostAppointments(Visit(StartTime), TRUE)
    \/ /\ appointments # NoRows /\ procedures = NoRows
       /\ PostProcedures(Colonoscopy, TRUE)
    \/ /\ procedures # NoRows /\ billing = NoRows
       /\ PostBilling(Invoice(150), TRUE)
    \/ /\ billing # NoRows /\ patientEvolutions = NoRows
       /\ PostPatientEvolutions(Note, TRUE)
    \/ PatchPatient("p1", Rename, TRUE)
    \/ PatchAppointment("a1", CheckIn, TRUE)
    \/ PatchProcedure("r1", Complete, TRUE)
    \/ PatchBilling("b1", Settle, TRUE)
    \/ PatchPatientEvolution("e1", Plan, TRUE)
    \/ DeletePatient("p1", TRUE)
    \/ DeleteAppointment("a1", TRUE)
    \/ DeletePatientEvolution("e1", TRUE)

OpenReads ==
    \/ GetPatient("p1", TRUE)
    \/ GetAppointment("a1", TRUE)
    \/ GetProcedure("r1", TRUE)
    \/ GetBillingRecord("b1", TRUE)
    \/ GetPatientEvolution("e1", TRUE)
    \/ GetPatients(JUndef, JUndef, TRUE)
    \/ SearchPatients(JStr("mar"), TRUE)
    \/ GetAppointments(JUndef, JUndef, TRUE)
    \/ GetTodaysAppointments(TRUE)
    \/ GetDashboardStats(TRUE)

NextOpen ==
    \/ \E body \in Visitors : PostLogin(body, TRUE)
    \/ OpenWrites
    \/ OpenReads

SpecOpen == Init /\ [][NextOpen]_vars

---------------------------------------------------------------------------
(* References: creates that name existing and missing rows, amendments     *)
(* that redirect a reference, and deletes of appointments in between       *)

\* a payload naming another row
Naming(body, f, id) == With(body, f, JStr(id))

ReferenceAppointmentPosts ==
    { Visit(StartTime), Naming(Visit(StartTime), "patientId", "p2"),
      Naming(Visit(StartTime), "doctorId", "u9") }
ReferenceProcedurePosts ==
    { Colonoscopy, Naming(Colonoscopy, "appointmentId", "a2"),
      Naming(Colonoscopy, "patientId", "p2") }
ReferenceBillingPosts ==
    { Invoice(150), Naming(Invoice(150), "appointmentId", "a1"),
      Naming(Invoice(150), "procedureId", "r1"), Naming(Invoice(150), "patientId", "p2") }
ReferenceEvolutionPosts ==
    { Note, Naming(Note, "appointmentId", "a1"), Naming(Note, "patientId", "p2") }

ReferencesNext ==
    \/ patients = NoRows /\ PostPatients(Maria, TRUE)
    \/ \E body \in ReferenceAppointmentPosts : PostAppointments(body, TRUE)
    \/ procedures = NoRows /\ \E body \in ReferenceProcedurePosts : PostProcedures(body, TRUE)
    \/ billing = NoRows /\ \E body \in ReferenceBillingPosts : PostBilling(body, TRUE)
    \/ /\ patientEvolutions = NoRows
       /\ \E body \in ReferenceEvolutionPosts : PostPatientEvolutions(body, TRUE)
    \/ \E id \in AppointmentIds : DeleteAppointment(id, TRUE)
    \/ \E id \in AppointmentIds :
          PatchAppointment(id, Naming(CheckIn, "patientId", "p2"), TRUE)
    \/ \E a \in AppointmentIds :
          PatchProcedure("r1", Naming(Complete, "appointmentId", a), TRUE)
    \/ PatchBilling("b1", Naming(Settle, "appointmentId", "a2"), TRUE)
    \/ DeletePatient("p1", TRUE)
    \/ DeletePatientEvolution("e1", TRUE)

SpecReferences == Init /\ [][ReferencesNext]_vars

---------------------------------------------------------------------------
(* Concurrent amendments: a patient, an appointment and a bill are         *)
(* registered, then PATCH requests arrive on the connections and their     *)
(* statements reach the store in any order                                 *)

ConcurrentPatches ==
    { [kind |-> "appointments", id |-> "a1", body |-> CheckIn],
      [kind |-> "appointments", id |-> "a1",
       body |-> [status |-> JStr("completed"), notes |-> JStr("fasting")]],
      [kind |-> "appointments", id |-> "a1", body |-> [notes |-> JStr("late")]],
      [kind |-> "billing", id |-> "b1", body |-> Settle],
      [kind |-> "billing", id |-> "b1", body |-> [status |-> JStr("overdue")]],
      [kind |-> "patients", id |-> "p1", body |-> Rename],
      [kind |-> "patients", id |-> "p1",
       body |-> [firstName |-> JStr("Maria"), phone |-> JStr("5551234"),
                 allergies |-> JArr(<<"latex">>)]],
      [kind |-> "patients", id |-> "p1", body |-> [isActive |-> JStr("yes")]] }

ConcurrentSetup ==
    \/ patients = NoRows /\ PostPatients(Maria, TRUE)
    \/ /\ patients # NoRows /\ appointments = NoRows
       /\ PostAppointments(Visit(StartTime), TRUE)
    \/ /\ appointments # NoRows /\ billing = NoRows
       /\ PostBilling(Invoice(150), TRUE)

NextConcurrent ==
    \/ ConcurrentSetup
    \/ /\ billing # NoRows
       /\ \E i \in Connections, p \in ConcurrentPatches :
             PatchReceive(i, p.kind, p.id, p.body)
    \/ \E i \in Connections : PatchStatement(i)
    \/ \E i \in Connections : PatchRespond(i)

SpecConcurrent == Init /\ [][NextConcurrent]_vars

---------------------------------------------------------------------------
(* The search box: patients are registered and deactivated, and queries    *)
(* are typed that occur in a name, in the phone, in the e-mail address, in *)
(* no field at all                                                         *)

SearchQueries == Queries \cup { JStr("X.IO"), JStr("_"), JStr("%") }

SearchNext ==
    \/ \E body \in PatientPostBodies : PostPatients(body, TRUE)
    \/ \E id \in PatientIds : DeletePatient(id, TRUE)
    \/ \E id \in PatientIds : PatchPatient(id, Rename, TRUE)
    \/ \E q \in SearchQueries : SearchPatients(q, TRUE)

NextSearch == Tick \/ SearchNext

SpecSearch == Init /\ [][NextSearch]_vars

---------------------------------------------------------------------------
(* Missing rows: by-id requests name rows that are not stored (yet), with  *)
(* payloads that pass the validation, that fail it, and that pass it but   *)
(* cannot be bound by the store                                            *)

\* a payload the validation refuses, and an amount that is text but no number
Unreadable == [notes |-> JNum(1)]
Overcharge == [amount |-> JStr("a lot")]

MissingPatches ==
    { [kind |-> "patients", body |-> Rename],
      [kind |-> "patients", body |-> Unreadable],
      [kind |-> "appointments", body |-> CheckIn],
      [kind |-> "appointments", body |-> Unreadable],
      [kind |-> "procedures", body |-> Complete],
      [kind |-> "billing", body |-> Settle],
      [kind |-> "billing", body |-> Unreadable],
      [kind |-> "billing", body |-> Overcharge],
      [kind |-> "patientEvolutions", body |-> Plan] }

\* the PATCH route of a table
Patch(kind, id, body) ==
    CASE kind = "patients"          -> PatchPatient(id, body, TRUE)
      [] kind = "appointments"      -> PatchAppointment(id, body, TRUE)
      [] kind = "procedures"        -> PatchProcedure(id, body, TRUE)
      [] kind = "billing"           -> PatchBilling(id, body, TRUE)
      [] kind = "patientEvolutions" -> PatchPatientEvolution(id, body, TRUE)

\* the ids of a table's pool and one the pool never issues
Named(pool) == pool \cup {"none"}

IdsOf(kind) ==
    CASE kind = "patients"          -> Named(PatientIds)
      [] kind = "appointments"      -> Named(AppointmentIds)
      [] kind = "procedures"        -> Named(ProcedureIds)
      [] kind = "billing"           -> Named(BillingIds)
      [] kind = "patientEvolutions" -> Named(EvolutionIds)

MissingNext ==
    \/ patients = NoRows /\ PostPatients(Maria, TRUE)
    \/ appointments = NoRows /\ PostAppointments(Visit(StartTime), TRUE)
    \/ billing = NoRows /\ PostBilling(Invoice(150), TRUE)
    \/ \E p \in MissingPatches : \E id \in IdsOf(p.kind) : Patch(p.kind, id, p.body)
    \/ \E id \in Named(PatientIds) : GetPatient(id, TRUE) \/ DeletePatient(id, TRUE)
    \/ \E id \in Named(AppointmentIds) : GetAppointment(id, TRUE) \/ DeleteAppointment(id, TRUE)
    \/ \E id \in Named(ProcedureIds) : GetProcedure(id, TRUE)
    \/ \E id \in Named(BillingIds) : GetBillingRecord(id, TRUE)
    \/ \E id \in Named(EvolutionIds) :
          GetPatientEvolution(id, TRUE) \/ DeletePatientEvolution(id, TRUE)

SpecMissing == Init /\ [][MissingNext]_vars

---------------------------------------------------------------------------
(* Updates among several rows: a patient, two appointments, a procedure,  *)
(* a bill and an evolution, then PATCH requests on any stored row.        *)

MergeKinds == {"patients", "appointments", "procedures", "billing", "patientEvolutions"}

MergePatches(kind) ==
    CASE kind = "patients"          -> ClinicPatientPatches
      [] kind = "appointments"      -> ClinicAppointmentPatches
      [] kind = "procedures"        -> ClinicProcedurePatches
      [] kind = "billing"           -> ClinicBillingPatches
      [] kind = "patientEvolutions" -> ClinicEvolutionPatches

MergeRegister ==
    \/ patients = NoRows /\ PostPatients(Maria, TRUE)
    \/ /\ patients # NoRows /\ DOMAIN appointments # {"a1", "a2"}
       /\ PostAppointments(Visit(StartTime), TRUE)
    \/ /\ DOMAIN appointments = {"a1", "a2"} /\ procedures = NoRows
       /\ PostProcedures(Colonoscopy, TRUE)
    \/ /\ procedures # NoRows /\ billing = NoRows
       /\ PostBilling(Invoice(150), TRUE)
    \/ /\ billing # NoRows /\ patientEvolutions = NoRows
       /\ PostPatientEvolutions(Note, TRUE)

MergeAmend ==
    /\ patientEvolutions # NoRows
    /\ \E kind \in MergeKinds : \E id \in DOMAIN Table(kind) :
           \E body \in MergePatches(kind) : Patch(kind, id, body)

\* the clock moves once the rows are registered
NextMerge == (patientEvolutions # NoRows /\ Tick) \/ MergeRegister \/ MergeAmend

SpecMerge == Init /\ [][NextMerge]_vars

---------------------------------------------------------------------------
(* The browser: the pages of one user query the server, create a patient   *)
(* and appointments, amend them and check a patient in.                    *)

ClientNext ==
    \/ \E key \in QueryKeys : useQuery(key)
    \/ patients = NoRows /\ mutate("createPatientMutation", "", Maria)
    \/ \E id \in DOMAIN patients : mutate("updatePatientMutation", id, Rename)
    \/ /\ patients # NoRows /\ appointments = NoRows
       /\ mutate("createAppointmentMutation", "", Visit(StartTime))
    \/ \E id \in DOMAIN appointments :
           mutate("updateAppointmentMutation", id, Reschedule(StartTime + 1))
    \/ \E id \in DOMAIN appointments : mutate("checkInMutation", id, <<>>)
    \/ mutationFn
    \/ onSettled

SpecClient == Init /\ [][ClientNext]_vars

---------------------------------------------------------------------------
(* The accounts: users are deactivated and reactivated in the store while  *)
(* logins and listings of the users arrive                                 *)

Roles == { JUndef, JStr("doctor"), JStr("receptionist"), JStr("nurse") }

StaffNext ==
    \/ \E u \in DOMAIN users, active \in BOOLEAN : UpdateUser(u, [isActive |-> active])
    \/ \E body \in LoginBodies : PostLogin(body, TRUE)
    \/ \E role \in Roles : GetUsers(role, TRUE)

SpecStaff == Init /\ [][StaffNext]_vars

---------------------------------------------------------------------------
(* The race: a patient with an appointment, a bill that may name the       *)
(* appointment and an evolution; then PATCH and DELETE requests for the    *)
(* appointment or the evolution are served at once                         *)

RacePatches ==
    { [kind |-> "appointments", id |-> "a1", body |-> CheckIn],
      [kind |-> "appointments", id |-> "a1", body |-> Naming(CheckIn, "patientId", "p2")],
      [kind |-> "appointments", id |-> "a1", body |-> [status |-> JStr("arrived")]],
      [kind |-> "patientEvolutions", id |-> "e1", body |-> Plan] }

RaceDeletes ==
    { [kind |-> "appointments", id |-> "a1"], [kind |-> "patientEvolutions", id |-> "e1"] }

RaceSetup ==
    \/ patients = NoRows /\ PostPatients(Maria, TRUE)
    \/ /\ patients # NoRows /\ appointments = NoRows /\ issued = {"p1"}
       /\ PostAppointments(Visit(StartTime), TRUE)
    \/ /\ appointments # NoRows /\ billing = NoRows
       /\ \E body \in { Invoice(150), Naming(Invoice(150), "appointmentId", "a1") } :
             PostBilling(body, TRUE)
    \/ /\ billing # NoRows /\ patientEvolutions = NoRows /\ "e1" \notin issued
       /\ PostPatientEvolutions(Note, TRUE)

NextRace ==
    \/ RaceSetup
    \/ /\ patientEvolutions # NoRows
       /\ \E i \in Connections, p \in RacePatches : PatchReceive(i, p.kind, p.id, p.body)
    \/ /\ patientEvolutions # NoRows
       /\ \E i \in Connections, d \in RaceDeletes : DeleteReceive(i, d.kind, d.id)
    \/ \E i \in Connections : PatchStatement(i)
    \/ \E i \in Connections : PatchRespond(i)
    \/ \E i \in Connections : DeleteStatement(i)
    \/ \E i \in Connections : DeleteRespond(i)

SpecRace == Init /\ [][NextRace]_vars

---------------------------------------------------------------------------
(* server/storage.ts: initializeDefaults, statement by statement.  Several *)
(* runs (several processes on one database, or a restart) may overlap, and *)
(* each statement may be failed by the store.                              *)

UserIds == { <<"u1", "u2", "u3", "u4", "u5", "u6", "u7", "u8">>[i] : i \in 1..(2 * MaxRuns) }

\* catch (error) { console.log(...) } : the promise resolves
Swallowed(r, failed) ==
    [startup EXCEPT ![r] = [pc |-> "done", caught |-> TRUE, failed |-> failed]]

\* storage.initializeDefaults() is called
initializeDefaults(r) ==
    /\ startup[r].pc = "idle"
    /\ startup' = [startup EXCEPT ![r].pc = "select"]
    /\ UNCHANGED <<browser, inflight, loggedIn, now, tables, issued, last>>

\* select ... where username = 'doctor' limit 1, and the test of its length
SelectExistingDoctor(r, up) ==
    /\ startup[r].pc = "select"
    /\ startup' = IF ~up THEN Swallowed(r, TRUE)
                  ELSE IF getUserByUsername("doctor") = Undefined
                  THEN [startup EXCEPT ![r].pc = "insert doctor"]
                  ELSE [startup EXCEPT ![r].pc = "done"]
    /\ UNCHANGED <<browser, inflight, loggedIn, now, tables, issued, last>>

\* db.insert(users).values({ id: randomUUID(), ... }) : the doctor, then the
\* receptionist
InsertDefaultUser(r, up) ==
    LET doctor == startup[r].pc = "insert doctor"
        id == randomUUID(UserIds)
        user == IF doctor
                THEN DefaultUser(id, "doctor", "Dr. Sarah Smith", "doctor@gastromed.com",
                                 "doctor")
                ELSE DefaultUser(id, "receptionist", "Jane Doe",
                                 "receptionist@gastromed.com", "receptionist")
        row == [user EXCEPT !.createdAt = now]
        threw == ~up \/ UserTaken(id, row)
    IN  /\ startup[r].pc \in {"insert doctor", "insert receptionist"}
        /\ CanIssue(UserIds)
        /\ issued' = issued \cup {id}
        /\ users' = IF threw THEN users ELSE Put(users, id, row)
        /\ startup' = IF threw THEN Swallowed(r, ~up)
                      ELSE [startup EXCEPT ![r].pc = IF doctor THEN "insert receptionist"
                                                     ELSE "done"]
        /\ UNCHANGED <<browser, inflight, loggedIn, now, patients, appointments, procedures,
                       billing, patientEvolutions, last>>

\* the database before any start-up
InitBoot ==
    /\ now = StartTime
    /\ users = NoRows
    /\ patients = NoRows
    /\ appointments = NoRows
    /\ procedures = NoRows
    /\ billing = NoRows
    /\ patientEvolutions = NoRows
    /\ issued = {}
    /\ last = Reply("", "", 0, Undefined)
    /\ loggedIn = {}
    /\ inflight = [i \in Connections |-> Idle]
    /\ browser = [cache |-> NothingCached, pending |-> NoMutation]
    /\ startup = [r \in Runs |-> NotStarted]

NextBoot ==
    \/ \E r \in Runs : initializeDefaults(r)
    \/ \E r \in Runs, up \in BOOLEAN : SelectExistingDoctor(r, up)
    \/ \E r \in Runs, up \in BOOLEAN : InsertDefaultUser(r, up)
    \/ \E body \in Visitors : PostLogin(body, TRUE)
    \/ \E role \in Roles : GetUsers(role, TRUE)

SpecBoot == InitBoot /\ [][NextBoot]_vars

\* date ranges: appointments around the two ends of a day, booked, deleted
\* and listed with every pair of bounds, given, absent or unreadable
RangeBounds == { JUndef, JIso(StartTime), JIso(StartTime + DayLen - 1), JStr("soon") }

RangeNext ==
    \/ PostPatients(Maria, TRUE)
    \/ \E body \in AppointmentPostBodies : PostAppointments(body, TRUE)
    \/ \E id \in AppointmentIds : DeleteAppointment(id, TRUE)
    \/ \E startQ \in RangeBounds, endQ \in RangeBounds : GetAppointments(startQ, endQ, TRUE)

SpecRange == Init /\ [][RangeNext]_vars

---------------------------------------------------------------------------
(* Properties of the patient routes, checked under Spec *)

DeleteOp == "DELETE /api/patients/:id"

\* C1 (as stated): a deletePatient on an already inactive patient returns
\* false, and the DELETE answers 404.
C1_SecondDeleteReturnsFalse ==
    (last.op = DeleteOp /\ ~last.threw /\ last.was = "inactive")
        => (last.ret = "false" /\ last.status = 404)

\* C1 (amended): deletePatient matches the row by id alone.  Whenever a row
\* with the id exists, active or already inactive, it returns true, the
\* DELETE answers 200 and the row is inactive afterwards; it returns false
\* (404) only when no row has the id, and then no row is created.
C1_DeleteMatchesById ==
    (last.op = DeleteOp /\ ~last.threw) =>
        IF last.was = "absent"
        THEN last.ret = "false" /\ last.status = 404 /\ last.id \notin DOMAIN patients
        ELSE /\ last.ret = "true" /\ last.status = 200
             /\ last.id \in DOMAIN patients
             /\ ~patients[last.id].isActive

\* a second DELETE of the same, already inactive patient has answered 200
C1_SecondDeleteWitness ==
    /\ last.op = DeleteOp /\ last.was = "inactive"
    /\ last.status = 200 /\ last.ret = "true"
    /\ ~patients[last.id].isActive

ListOp == "GET /api/patients"
SearchOp == "GET /api/patients/search"

\* C2: in every reachable state getPatients, for any limit and offset, and
\* searchPatients, for any query, return only patients whose isActive is
\* true; so does every list or search response; a patient that is inactive
\* (soft-deleted) is in none of them.
C2_OnlyActivePatientsListed ==
    /\ \A limit \in 0..(MaxPatients + 1), offset \in 0..MaxPatients :
         \A rows \in getPatients(limit, offset) :
           \A i \in 1..Len(rows) : patients[rows[i]].isActive
    /\ \A q \in Queries : \A id \in searchPatients(q.s) : patients[id].isActive
    /\ (last.op \in {ListOp, SearchOp} /\ last.status = 200) =>
         \A i \in 1..Len(last.rows) :
            last.rows[i] \in DOMAIN patients /\ patients[last.rows[i]].isActive

\* a list response that leaves out a patient who is stored and soft-deleted
C2_DeletedPatientNotListedWitness ==
    /\ last.op = ListOp /\ last.status = 200
    /\ \E id \in DOMAIN patients :
          ~patients[id].isActive /\ id \notin Range(last.rows)

\* the value a created row carries for an insertable column the claim calls
\* "equal to the input, an omitted field taking its declared default"
DeclaredValue(cols, body, f) ==
    IF Present(body, f) THEN Native(cols[f], body[f]) ELSE DefaultNative(cols[f])

PostPatientsOp == "POST /api/patients"

\* C7 (as stated): createPatient(input) then getPatient(id) yields a record
\* whose every input field equals the input, omitted fields (the array fields
\* included) taking their declared defaults, with a fresh id and isActive
\* true when not supplied.
C7_CreateRoundTripDeclaredDefaults ==
    [][ \A body \in PatientPostBodies :
          (last'.status = 201 /\ PostPatients(body, TRUE)) =>
              /\ last'.ret \notin DOMAIN patients
              /\ last'.ret \notin issued
              /\ last'.ret \in DOMAIN patients'
              /\ \A f \in DOMAIN patientColumns :
                   patients'[last'.ret][f] = DeclaredValue(patientColumns, body, f) ]_vars

\* what createPatient stores in allergies and medicalHistory: the input
\* when it is given and truthy (any array is), and null otherwise
StoredOrNull(body, f) ==
    IF Present(body, f) /\ Truthy(body[f]) THEN body[f] ELSE JNull

\* C7 (amended): the round trip holds for every field but allergies and
\* medicalHistory, with medications and isActive taking their declared
\* defaults ([] and true) when omitted; an omitted (or null, false, 0, "")
\* allergies or medicalHistory is stored as null, not as the declared [].
\* The id is fresh, and the other rows are untouched.
C7_CreateRoundTrip ==
    [][ \A body \in PatientPostBodies :
          (last'.status = 201 /\ PostPatients(body, TRUE)) =>
              /\ last'.ret \notin DOMAIN patients
              /\ last'.ret \notin issued
              /\ getPatient(last'.ret) = Undefined
              /\ last'.ret \in DOMAIN patients'
              /\ patients'[last'.ret].id = last'.ret
              /\ \A f \in DOMAIN patientColumns :
                   patients'[last'.ret][f] =
                     IF f \in {"allergies", "medicalHistory"}
                     THEN StoredOrNull(body, f)
                     ELSE DeclaredValue(patientColumns, body, f)
              /\ \A id \in DOMAIN patients : patients'[id] = patients[id] ]_vars

\* a patient created from a payload without array fields: allergies and
\* medicalHistory are null, medications is [] and isActive is true
C7_CreatedWithoutArraysWitness ==
    /\ last.op = PostPatientsOp /\ last.status = 201
    /\ last.ret \in DOMAIN patients
    /\ patients[last.ret].allergies = JNull
    /\ patients[last.ret].medicalHistory = JNull
    /\ patients[last.ret].medications = JArr(<<>>)
    /\ patients[last.ret].isActive
    /\ patients[last.ret].firstName = "Maria"

---------------------------------------------------------------------------
(* Properties of the appointment routes, checked under SpecAppointments   *)
(* (the day's window) and SpecCancellations (the deletions)               *)

\* the appointments of the half-open day [midnight today, midnight tomorrow)
TodayHalfOpen ==
    { id \in DOMAIN appointments :
        /\ StartOfDay(now) <= appointments[id].appointmentDate
        /\ appointments[id].appointmentDate < StartOfNextDay(now) }

\* C3: getDashboardStats().todayAppointments equals the number of
\* appointments whose appointmentDate t satisfies midnight today <= t <
\* midnight tomorrow; an appointment at the first instant of tomorrow is not
\* counted; getTodaysAppointments returns the appointments of the same window.
C3_TodayWindowHalfOpen ==
    /\ \A stats \in getDashboardStats :
          stats.todayAppointments = JNum(Cardinality(TodayHalfOpen))
    /\ \A rows \in getTodaysAppointments : Range(rows) = TodayHalfOpen

DeleteAppointmentOp == "DELETE /api/appointments/:id"
PostAppointmentsOp == "POST /api/appointments"

\* the appointment ids that were stored once and are no longer
DeletedAppointments == (issued \cap AppointmentIds) \ DOMAIN appointments

\* C4: when deleteAppointment(id) returns true the row is gone; from then on
\* getAppointment(id) returns undefined (GET answers 404), a further
\* deleteAppointment(id) returns false (DELETE answers 404), and no step, a
\* create included, brings the id back.
C4_DeletedAppointmentStaysAbsent ==
    [][ /\ \A id \in AppointmentIds :
             (last'.ret = "true" /\ DeleteAppointment(id, TRUE)) =>
                 /\ id \in DOMAIN appointments
                 /\ id \notin DOMAIN appointments'
                 /\ id \in issued'
        /\ \A id \in DeletedAppointments :
             /\ getAppointment(id) = Undefined
             /\ deleteAppointment(id, TRUE).ret = "false"
             /\ GetAppointment(id, TRUE) => last'.status = 404
             /\ DeleteAppointment(id, TRUE) => last'.status = 404
             /\ id \notin DOMAIN appointments' ]_vars

\* an appointment was created after another one was deleted: it has another
\* id, and the deleted id is still absent
C4_CreatedAfterDeleteWitness ==
    /\ last.op = PostAppointmentsOp /\ last.status = 201
    /\ last.ret \in DOMAIN appointments
    /\ DeletedAppointments # {}
    /\ last.ret \notin DeletedAppointments

---------------------------------------------------------------------------
(* Properties of the dashboard revenue, checked under SpecBilling *)

\* the billing rows that are paid, with a paidDate on or after the first
\* instant of the current month
PaidInCurrentMonth ==
    { id \in DOMAIN billing :
        /\ billing[id].status = "paid"
        /\ billing[id].paidDate # NullTime
        /\ billing[id].paidDate >= StartOfMonth(now) }

\* C8: getDashboardStats().monthlyRevenue is a number, the sum of amount
\* over exactly the billing rows with status paid and paidDate >= the first
\* instant of the current month; it is the number 0, never null or NaN,
\* when no row qualifies.
C8_MonthlyRevenueIsTheSum ==
    \A stats \in getDashboardStats :
        stats.monthlyRevenue = JNum(SumAmount(PaidInCurrentMonth))

---------------------------------------------------------------------------
(* Properties of the updates, checked under SpecClinic *)

\* the value v a payload carries for field f: a date arrives as a string
\* and is stored as the instant it spells
Sent(cols, body, f) ==
    Native(cols[f], IF cols[f].type = "timestamp" /\ Truthy(body[f])
                    THEN NewDate(body[f]) ELSE body[f])

\* every field of the payload but the excepted ones is in the record
Applied(cols, body, except, new) ==
    \A f \in ((DOMAIN body) \cap (DOMAIN cols)) \ except : new[f] = Sent(cols, body, f)

\* the record keeps the fields fs whatever the payload carries
Kept(fs, old, new) == \A f \in fs : new[f] = old[f]

PatientFrozen   == {"allergies", "medicalHistory"}
ProcedureFrozen == {"medications"}

\* C5 (as stated): for each of the five kinds, an update with a valid
\* payload followed by getById returns a record with every field of the
\* payload equal to the payload's value and an updatedAt strictly greater
\* than the one the record had before.
C5_UpdateRoundTripStrict ==
    [][ /\ \A body \in ClinicPatientPatches :
             (last'.status = 200 /\ PatchPatient("p1", body, TRUE)) =>
                 /\ Applied(patientColumns, body, {}, patients'["p1"])
                 /\ patients'["p1"].updatedAt > patients["p1"].updatedAt
        /\ \A body \in ClinicAppointmentPatches :
             (last'.status = 200 /\ PatchAppointment("a1", body, TRUE)) =>
                 /\ Applied(appointmentColumns, body, {}, appointments'["a1"])
                 /\ appointments'["a1"].updatedAt > appointments["a1"].updatedAt
        /\ \A body \in ClinicProcedurePatches :
             (last'.status = 200 /\ PatchProcedure("r1", body, TRUE)) =>
                 /\ Applied(procedureColumns, body, {}, procedures'["r1"])
                 /\ procedures'["r1"].updatedAt > procedures["r1"].updatedAt
        /\ \A body \in ClinicBillingPatches :
             (last'.status = 200 /\ PatchBilling("b1", body, TRUE)) =>
                 /\ Applied(billingColumns, body, {}, billing'["b1"])
                 /\ billing'["b1"].updatedAt > billing["b1"].updatedAt
        /\ \A body \in ClinicEvolutionPatches :
             (last'.status = 200 /\ PatchPatientEvolution("e1", body, TRUE)) =>
                 /\ Applied(patientEvolutionColumns, body, {}, patientEvolutions'["e1"])
                 /\ patientEvolutions'["e1"].updatedAt > patientEvolutions["e1"].updatedAt
      ]_vars

\* the record is stamped with the clock reading of the update, which is no
\* earlier than the stamp it had
Stamped(old, new) == new.updatedAt = now /\ new.updatedAt >= old.updatedAt

\* C5 (amended): an update followed by getById returns the record with
\* every field of the payload equal to the payload's value, except the
\* fields the update strips (allergies and medicalHistory of a Patient,
\* medications of a Procedure), and with updatedAt set to the clock reading
\* at the update: never earlier than the previous updatedAt, and equal to
\* it when no clock tick separates the two writes.
C5_UpdateRoundTrip ==
    [][ /\ \A body \in ClinicPatientPatches :
             (last'.status = 200 /\ PatchPatient("p1", body, TRUE)) =>
                 /\ (getPatient("p1") = "p1")'
                 /\ Applied(patientColumns, body, PatientFrozen, patients'["p1"])
                 /\ Stamped(patients["p1"], patients'["p1"])
        /\ \A body \in ClinicAppointmentPatches :
             (last'.status = 200 /\ PatchAppointment("a1", body, TRUE)) =>
                 /\ (getAppointment("a1") = "a1")'
                 /\ Applied(appointmentColumns, body, {}, appointments'["a1"])
                 /\ Stamped(appointments["a1"], appointments'["a1"])
        /\ \A body \in ClinicProcedurePatches :
             (last'.status = 200 /\ PatchProcedure("r1", body, TRUE)) =>
                 /\ (getProcedure("r1") = "r1")'
                 /\ Applied(procedureColumns, body, ProcedureFrozen, procedures'["r1"])
                 /\ Stamped(procedures["r1"], procedures'["r1"])
        /\ \A body \in ClinicBillingPatches :
             (last'.status = 200 /\ PatchBilling("b1", body, TRUE)) =>
                 /\ (getBillingRecord("b1") = "b1")'
                 /\ Applied(billingColumns, body, {}, billing'["b1"])
                 /\ Stamped(billing["b1"], billing'["b1"])
        /\ \A body \in ClinicEvolutionPatches :
             (last'.status = 200 /\ PatchPatientEvolution("e1", body, TRUE)) =>
                 /\ (getPatientEvolution("e1") = "e1")'
                 /\ Applied(patientEvolutionColumns, body, {}, patientEvolutions'["e1"])
                 /\ Stamped(patientEvolutions["e1"], patientEvolutions'["e1"])
      ]_vars

\* an appointment updated one tick after it was created: the status of the
\* payload is stored and updatedAt is later than createdAt
C5_UpdatedAfterTickWitness ==
    /\ last.op = "PATCH /api/appointments/:id" /\ last.status = 200
    /\ appointments["a1"].status = "checked_in"
    /\ appointments["a1"].checkedInAt = StartTime + 1
    /\ appointments["a1"].updatedAt > appointments["a1"].createdAt

WriteOps ==
    { "POST /api/patients", "PATCH /api/patients/:id",
      "POST /api/appointments", "PATCH /api/appointments/:id",
      "POST /api/procedures", "PATCH /api/procedures/:id",
      "POST /api/billing", "PATCH /api/billing/:id",
      "POST /api/patient-evolutions", "PATCH /api/patient-evolutions/:id" }

\* C10: whenever a POST or PATCH on patients, appointments, procedures,
\* billing or patient-evolutions answers 400, the step leaves every table
\* (and the identifiers in use) as it was before the request.
C10_RejectedNeverStored ==
    [][ (last'.op \in WriteOps /\ last'.status = 400) =>
            UNCHANGED <<tables, issued>> ]_vars

\* a PATCH with a status outside the enum was answered 400 while the
\* appointment it names is stored, amended by an earlier request
C10_RejectedPatchWitness ==
    /\ last.op = "PATCH /api/appointments/:id" /\ last.status = 400
    /\ "a1" \in DOMAIN appointments
    /\ appointments["a1"].status = "checked_in"

---------------------------------------------------------------------------
(* Properties of the failure mapping, checked under SpecFaults *)

\* C9: in every handler, POST /api/auth/login included, a persistence call
\* that throws is answered 500 with a generic message carrying no text of
\* the internal error; 400 is answered only for a payload that fails
\* validation, never for a failure of the store.
C9_StoreFailureAnswers500 ==
    /\ last.threw => (last.status = 500 /\ ~last.leak)
    /\ last.status = 400 => ~last.threw

---------------------------------------------------------------------------
(* Properties of the date fields, checked under SpecPayments *)

\* C11: every POST and PATCH endpoint accepts an ISO-8601 string for each of
\* its date fields and persists the instant it spells: PATCH /api/billing/:id
\* with {status: paid, paidDate: <ISO string>} on an existing bill answers 200
\* and stores status paid and that paidDate, just as POST /api/billing and
\* PATCH /api/appointments/:id do for their date fields.
C11_IsoDatesAccepted ==
    [][ /\ \A id \in DOMAIN billing :
             PatchBilling(id, MarkAsPaid(now), TRUE) =>
                 /\ last'.status = 200
                 /\ billing'[id].status = "paid"
                 /\ billing'[id].paidDate = now
        /\ \A body \in PaymentPostBodies :
             (CanIssue(BillingIds) /\ patients # NoRows /\ PostBilling(body, TRUE)) =>
                 /\ last'.status = 201
                 /\ Applied(billingColumns, body, {}, billing'[last'.ret])
        /\ \A id \in DOMAIN appointments :
             PatchAppointment(id, Reschedule(StartTime + 1), TRUE) =>
                 /\ last'.status = 200
                 /\ appointments'[id].appointmentDate = StartTime + 1
      ]_vars

---------------------------------------------------------------------------
(* Properties of the appointment status, checked under SpecStatus *)

\* C12: for every existing appointment, whatever its status (completed,
\* cancelled and no_show included), and every status s of the enum, PATCH
\* /api/appointments/:id {status: s} answers 200 and stores s; a status
\* outside the enum is answered 400 and the stored status stays; the stored
\* status of every appointment is always a member of the enum.
C12_StatusUnconstrained ==
    [][ /\ \A id \in DOMAIN appointments, body \in StatusPatchBodies :
             PatchAppointment(id, body, TRUE) =>
                 IF body.status.s \in appointmentStatusEnum
                 THEN last'.status = 200 /\ appointments'[id].status = body.status.s
                 ELSE last'.status = 400 /\ appointments'[id].status = appointments[id].status
        /\ \A id \in DOMAIN appointments' :
             appointments'[id].status \in appointmentStatusEnum
      ]_vars

\* an appointment that was completed is scheduled again
C12_ReopenedWitness ==
    /\ last.op = "PATCH /api/appointments/:id" /\ last.status = 200
    /\ last.id \in DOMAIN appointments
    /\ appointments[last.id].status = "scheduled"
    /\ appointments[last.id].completedAt = StartTime

---------------------------------------------------------------------------
(* Login, checked under SpecLogin *)

LoginOp == "POST /api/auth/login"

\* both fields of the body are strings
WellFormed(body) ==
    /\ Field(body, "username").k = "string"
    /\ Field(body, "password").k = "string"

\* the users whose username and stored password are exactly the supplied ones
Matching(body) ==
    { u \in DOMAIN users : /\ users[u].username = body.username.s
                           /\ users[u].password = body.password.s }

\* C13: a login with a well-formed body, the store answering, answers 200
\* exactly when a user with the supplied username exists whose stored
\* password equals the supplied one, and 401 otherwise; the 200 body is that
\* user's fields without the password; a login never changes a table.
C13_LoginByExactPassword ==
    [][ \A body \in LoginBodies :
          /\ (WellFormed(body) /\ PostLogin(body, TRUE)) =>
                /\ last'.status = (IF Matching(body) # {} THEN 200 ELSE 401)
                /\ last'.status = 200 =>
                      \E u \in Matching(body) :
                         /\ DOMAIN last'.user = (DOMAIN users[u]) \ {"password"}
                         /\ \A f \in DOMAIN last'.user : last'.user[f] = users[u][f]
          /\ \A up \in BOOLEAN :
                PostLogin(body, up) => UNCHANGED <<tables, issued>>
      ]_vars

\* the doctor has logged in after a patient was registered
C13_LoggedInWitness ==
    /\ last.op = LoginOp
    /\ last.status = 200
    /\ last.user.username = "doctor"
    /\ patients # NoRows

---------------------------------------------------------------------------
(* Authorization, checked under SpecOpen *)

\* the status a by-id request gets from the presence of its target alone
ByPresence(present) == IF present THEN 200 ELSE 404

\* the status a create gets from the presence of the rows it refers to alone
ByReferences(present) == IF present THEN 201 ELSE 500

MutatingOps ==
    WriteOps \cup { DeleteOp, DeleteAppointmentOp, "DELETE /api/patient-evolutions/:id" }

\* C15: route protection on the server: a request to a mutating route made
\* while no user is authenticated is answered 401 or 403 and leaves every
\* table as it was.
C15_RouteProtection ==
    [][ (loggedIn = {} /\ last'.op \in MutatingOps) =>
            /\ last'.status \in {401, 403}
            /\ UNCHANGED <<tables, issued>>
      ]_vars

---------------------------------------------------------------------------
(* Soft deletion, checked under SpecOpen *)

\* the ids of a pool that randomUUID has returned to a create
Created(pool) == issued \cap pool

\* C16: no request removes a patient, a procedure or a billing record: every
\* id a create has returned stays in its table; after deletePatient the row
\* is still returned by getPatient, and it differs from the row before in
\* isActive and updatedAt only, the other patients being left alone.
C16_NeverPhysicallyRemoved ==
    [][ /\ DOMAIN patients \subseteq DOMAIN patients'
        /\ DOMAIN procedures \subseteq DOMAIN procedures'
        /\ DOMAIN billing \subseteq DOMAIN billing'
        /\ Created(PatientIds)' \subseteq DOMAIN patients'
        /\ Created(ProcedureIds)' \subseteq DOMAIN procedures'
        /\ Created(BillingIds)' \subseteq DOMAIN billing'
        /\ \A id \in DOMAIN patients :
              (last'.op = DeleteOp /\ DeletePatient(id, TRUE)) =>
                  /\ getPatient(id)' = id
                  /\ ~patients'[id].isActive
                  /\ \A f \in (DOMAIN patients[id]) \ {"isActive", "updatedAt"} :
                        patients'[id][f] = patients[id][f]
                  /\ \A other \in (DOMAIN patients) \ {id} :
                        patients'[other] = patients[other]
      ]_vars

\* a patient with a procedure and a bill has been deactivated, and all three
\* rows are there
C16_DeactivatedStillStoredWitness ==
    /\ last.op = DeleteOp
    /\ last.status = 200
    /\ "p1" \in DOMAIN patients /\ ~patients["p1"].isActive
    /\ "r1" \in DOMAIN procedures
    /\ "b1" \in DOMAIN billing

---------------------------------------------------------------------------
(* Referential integrity, checked under SpecReferences *)

\* every reference a row must hold points at a stored row
ReferencesHold ==
    /\ \A r \in DOMAIN procedures :
          /\ procedures[r].appointmentId \in DOMAIN appointments
          /\ procedures[r].patientId \in DOMAIN patients
          /\ procedures[r].doctorId \in DOMAIN users
    /\ \A a \in DOMAIN appointments : appointments[a].patientId \in DOMAIN patients
    /\ \A b \in DOMAIN billing : billing[b].patientId \in DOMAIN patients
    /\ \A e \in DOMAIN patientEvolutions :
          patientEvolutions[e].patientId \in DOMAIN patients

\* the payload names a row, under f, that its table does not hold
Dangling(body, f, tbl) == f \in DOMAIN body /\ body[f].s \notin DOMAIN tbl

\* the request was refused and nothing was stored
Refused == last'.status >= 400 /\ UNCHANGED <<tables, issued>>

\* C17: after every request the references hold: each procedure names a
\* stored appointment, patient and doctor, each appointment, bill and
\* evolution a stored patient, deletes of appointments included; a create
\* naming a row that is not stored is refused and stores nothing.
C17_ReferentialIntegrity ==
    [][ /\ ReferencesHold'
        /\ \A body \in ReferenceAppointmentPosts :
              ( /\ last'.op = "POST /api/appointments"
                /\ Dangling(body, "patientId", patients) \/ Dangling(body, "doctorId", users)
                /\ PostAppointments(body, TRUE) ) => Refused
        /\ \A body \in ReferenceProcedurePosts :
              ( /\ last'.op = "POST /api/procedures"
                /\ \/ Dangling(body, "appointmentId", appointments)
                   \/ Dangling(body, "patientId", patients)
                /\ PostProcedures(body, TRUE) ) => Refused
        /\ \A body \in ReferenceBillingPosts :
              ( /\ last'.op = "POST /api/billing"
                /\ \/ Dangling(body, "patientId", patients)
                   \/ Dangling(body, "appointmentId", appointments)
                   \/ Dangling(body, "procedureId", procedures)
                /\ PostBilling(body, TRUE) ) => Refused
        /\ \A body \in ReferenceEvolutionPosts :
              ( /\ last'.op = "POST /api/patient-evolutions"
                /\ \/ Dangling(body, "patientId", patients)
                   \/ Dangling(body, "appointmentId", appointments)
                /\ PostPatientEvolutions(body, TRUE) ) => Refused
      ]_vars

\* the delete of an appointment a procedure refers to was refused
C17_ReferencedDeleteRefusedWitness ==
    /\ last.op = DeleteAppointmentOp
    /\ last.threw
    /\ \E r \in DOMAIN procedures : procedures[r].appointmentId = last.id

---------------------------------------------------------------------------
(* Concurrent PATCH requests, checked under SpecConcurrent *)

\* the connections whose request updated row id of the table and was answered
Updaters(kind, id) ==
    { i \in Connections : /\ inflight[i].pc = "answered"
                          /\ inflight[i].kind = kind
                          /\ inflight[i].ret = id }

\* the fields request i set: those of its validated payload, or only those
\* of them that reach the statement
FieldsSet(i, reaching) ==
    IF reaching THEN (DOMAIN inflight[i].sent) \ Deleted(inflight[i].kind)
    ELSE DOMAIN inflight[i].sent

\* of the connections W, the one whose statement the store executed last
LastWriter(W) == CHOOSE i \in W : \A j \in W : inflight[j].seq <= inflight[i].seq

\* once every connection is answered, for a row that two requests or more
\* updated: a field that requests set has the value of the request whose
\* statement came last among them, every other field but updatedAt is as it
\* was when the requests arrived
LastWriteWins(reaching) ==
    (\A i \in Connections : inflight[i].pc = "answered") =>
        \A kind \in {"patients", "appointments", "billing"} :
           \A id \in { x \in DOMAIN Table(kind) : Cardinality(Updaters(kind, x)) >= 2 } :
              \A f \in (DOMAIN Table(kind)[id]) \ {"updatedAt"} :
                 LET W == { i \in Updaters(kind, id) : f \in FieldsSet(i, reaching) }
                 IN  IF W # {}
                     THEN Table(kind)[id][f] = inflight[LastWriter(W)].sent[f]
                     ELSE \A i \in Updaters(kind, id) :
                             Table(kind)[id][f] = inflight[i].before[f]

\* C18 (as stated): after concurrent PATCH requests on one entity, a field
\* set by several holds the value of the statement executed last, a field set
\* by one holds that request's value, and nothing else but updatedAt changed.
C18_LastWriteWins == LastWriteWins(FALSE)

\* C18 (amended): the same, for the fields that reach the UPDATE statement:
\* allergies and medicalHistory of a patient (medications of a procedure) are
\* taken out of every update and stay as they were.
C18_LastWriteWinsOnStoredFields == LastWriteWins(TRUE)

\* two requests arrived for the same appointment before either statement
\* ran; both set the status, differently, one alone set the notes; the store
\* ran the statement of connection 1 last
C18_OverlappingPatchesWitness ==
    /\ \A i \in Connections : inflight[i].pc = "answered"
    /\ Updaters("appointments", "a1") = {1, 2}
    /\ inflight[1].before = inflight[2].before
    /\ inflight[1].seq > inflight[2].seq
    /\ "status" \in (DOMAIN inflight[1].sent) \cap (DOMAIN inflight[2].sent)
    /\ inflight[1].sent.status # inflight[2].sent.status
    /\ "notes" \in (DOMAIN inflight[2].sent) \ (DOMAIN inflight[1].sent)
    /\ appointments["a1"].status = inflight[1].sent.status
    /\ appointments["a1"].notes = inflight[2].sent.notes

---------------------------------------------------------------------------
(* Search, checked under SpecSearch *)

\* sub occurs in text (sequences of characters)
Occurs(sub, text) ==
    \E i \in 0..(Len(text) - Len(sub)) : SubSeq(text, i + 1, i + Len(sub)) = sub

\* sub occurs in the text of a column, NULL holding no text
OccursIn(sub, v) == v # NullText /\ Occurs(sub, Chars(v))

\* q occurs in v, letter case aside
OccursInAnyCase(q, v) == v # NullText /\ Occurs(Lower(Chars(q)), Lower(Chars(v)))

\* the active patients with q in a name or the e-mail address whatever the
\* letter case, or in the phone number
Matches(q) ==
    { id \in DOMAIN patients :
        /\ patients[id].isActive
        /\ \/ OccursInAnyCase(q, patients[id].firstName)
           \/ OccursInAnyCase(q, patients[id].lastName)
           \/ OccursInAnyCase(q, patients[id].email)
           \/ OccursIn(Chars(q), patients[id].phone)
           \/ OccursIn(Lower(Chars(q)), patients[id].phone) }

\* C19: a search for q answers exactly the active patients that have q in
\* the first name, the last name or the e-mail address, letter case aside, or
\* in the phone number.
C19_SearchIsSubstringMatch ==
    [][ \A q \in SearchQueries :
          (last'.op = SearchOp /\ last'.status = 200 /\ SearchPatients(q, TRUE)) =>
              Range(last'.rows) = Matches(q.s)
      ]_vars

\* the same for the queries made of letters, digits and dots
C19_PlainQueriesMatchSubstrings ==
    [][ \A q \in SearchQueries \ { JStr("_"), JStr("%") } :
          (last'.op = SearchOp /\ last'.status = 200 /\ SearchPatients(q, TRUE)) =>
              Range(last'.rows) = Matches(q.s)
      ]_vars

---------------------------------------------------------------------------
(* Not found, checked under SpecMissing *)

\* the by-id routes and the table each looks into
ByIdTable(op) ==
    CASE op \in {"GET /api/patients/:id", "PATCH /api/patients/:id", DeleteOp} -> "patients"
      [] op \in {"GET /api/appointments/:id", "PATCH /api/appointments/:id",
                 DeleteAppointmentOp} -> "appointments"
      [] op \in {"GET /api/procedures/:id", "PATCH /api/procedures/:id"} -> "procedures"
      [] op \in {"GET /api/billing/:id", "PATCH /api/billing/:id"} -> "billing"
      [] op \in {"GET /api/patient-evolution/:id", "PATCH /api/patient-evolutions/:id",
                 "DELETE /api/patient-evolutions/:id"} -> "patientEvolutions"
      [] OTHER -> ""

\* the request of the step named a row its table does not hold
NamedMissing ==
    /\ ByIdTable(last'.op) # ""
    /\ last'.id \notin DOMAIN Table(ByIdTable(last'.op))

\* C20 (as stated): a by-id GET, PATCH or DELETE naming a row that is not
\* stored is answered 404, the storage call throws nothing, and no table
\* changes.
C20_NotFoundIs404 ==
    [][ NamedMissing =>
            /\ last'.status = 404
            /\ ~last'.threw
            /\ UNCHANGED <<tables, issued>>
      ]_vars

\* the PATCH routes
PatchOps ==
    { PatchOp(kind) :
        kind \in {"patients", "appointments", "procedures", "billing", "patientEvolutions"} }

\* C20 (amended): such a request never changes a table; a GET or a DELETE is
\* answered 404 and the storage call throws nothing; a PATCH is answered 400
\* when its payload fails the validation, 500 when the payload passes it but
\* carries a decimal the store cannot read, and 404 otherwise.
C20_NotFoundIs404AfterValidation ==
    [][ /\ NamedMissing => UNCHANGED <<tables, issued>>
        /\ (NamedMissing /\ last'.op \notin PatchOps) =>
               last'.status = 404 /\ ~last'.threw
        /\ \A p \in MissingPatches : \A id \in IdsOf(p.kind) :
               ( /\ last'.op = PatchOp(p.kind)
                 /\ id \notin DOMAIN Table(p.kind)
                 /\ Patch(p.kind, id, p.body) ) =>
                   last'.status =
                      IF ~PatchParse(p.kind, p.body).ok THEN 400
                      ELSE IF BadParameter(Columns(p.kind), PatchParse(p.kind, p.body).data)
                      THEN 500 ELSE 404
      ]_vars

\* a bill that is not stored was to be settled, a patient being registered
C20_MissingBillWitness ==
    /\ last.op = "PATCH /api/billing/:id"
    /\ last.status = 404
    /\ last.id \notin DOMAIN billing
    /\ patients # NoRows

---------------------------------------------------------------------------
(* Properties of the dashboard counts, checked under SpecClinic *)

\* the procedures still scheduled, and the patients still active
ScheduledProcedures == { id \in DOMAIN procedures : procedures[id].status = "scheduled" }

ActivePatients == { id \in DOMAIN patients : patients[id].isActive }

\* C21: after any sequence of create, update and delete operations,
\* getDashboardStats().pendingProcedures equals the number of stored
\* procedures whose status is scheduled, and activePatients equals the
\* number of patients whose isActive is true.
C21_CountsMatchTheStore ==
    \A stats \in getDashboardStats :
        /\ stats.pendingProcedures = JNum(Cardinality(ScheduledProcedures))
        /\ stats.activePatients = JNum(Cardinality(ActivePatients))

---------------------------------------------------------------------------
(* Properties of the merge on update, checked under SpecMerge *)

\* every column the payload does not name, updatedAt apart, is as it was
Merged(body, old, new) ==
    \A f \in (DOMAIN old) \ ((DOMAIN body) \cup {"updatedAt"}) : new[f] = old[f]

\* the step writes nothing but row id of the table of the kind
OnlyRow(kind, id) ==
    /\ \A other \in MergeKinds \cup {"users"} :
           other # kind => Table(other)' = Table(other)
    /\ DOMAIN Table(kind)' = DOMAIN Table(kind)
    /\ \A x \in (DOMAIN Table(kind)) \ {id} : Table(kind)'[x] = Table(kind)[x]

\* C22: an update merges rather than replaces: for every kind, an update
\* of row id with a partial payload leaves every stored field the payload
\* does not name as it was, updatedAt apart, and leaves every other row of
\* every table unchanged.
C22_UpdateMerges ==
    [][ \A kind \in MergeKinds : \A id \in DOMAIN Table(kind) :
          \A body \in MergePatches(kind) :
            ( /\ last'.op = PatchOp(kind) /\ last'.id = id /\ last'.status = 200
              /\ Patch(kind, id, body) ) =>
                /\ Merged(body, Table(kind)[id], Table(kind)'[id])
                /\ OnlyRow(kind, id)
      ]_vars

\* the second appointment was checked in a tick after it was made: its
\* reason and date are those of the create, the first appointment is still
\* scheduled and unstamped
C22_SecondAppointmentMergedWitness ==
    /\ last.op = "PATCH /api/appointments/:id" /\ last.id = "a2" /\ last.status = 200
    /\ appointments["a2"].status = "checked_in"
    /\ appointments["a2"].reason = "checkup"
    /\ appointments["a2"].appointmentDate = StartTime
    /\ appointments["a2"].updatedAt > appointments["a2"].createdAt
    /\ appointments["a1"].status = "scheduled"
    /\ appointments["a1"].updatedAt = appointments["a1"].createdAt

---------------------------------------------------------------------------
(* Properties of the patient listing, checked under Spec *)

\* the value the caller asks for: the one supplied, the default when none is
Requested(q, dflt) == IF q = JUndef THEN dflt ELSE q.n

\* C23: GET /api/patients answers with getPatients(limit, offset), the
\* active patients by descending createdAt, the first offset skipped and at
\* most limit returned, where limit and offset are the caller's values
\* whenever supplied, and 50 and 0 when the request gives none.
C23_ListingContract ==
    [][ \A limitQ \in PageParams : \A offsetQ \in PageParams :
          (last'.op = "GET /api/patients" /\ GetPatients(limitQ, offsetQ, TRUE)) =>
              /\ last'.status = 200
              /\ last'.rows \in getPatients(Requested(limitQ, DefaultLimit),
                                            Requested(offsetQ, DefaultOffset))
      ]_vars

---------------------------------------------------------------------------
(* Properties of the browser's cache, checked under SpecClient *)

\* C24: client cache coherence: every successful mutating call invalidates
\* every cached view that shows the mutated data, so that once a mutation
\* has settled every view still cached as fresh shows what the server
\* holds; in particular after a check-in the cached lists of appointments,
\* of the day's appointments and the dashboard statistics, and after a
\* patient update the views that embed that patient.
C24_FreshViewsAreCurrent ==
    browser.pending = NoMutation =>
        \A key \in QueryKeys :
            browser.cache[key].state = "fresh" => browser.cache[key].data = Answer(key)

---------------------------------------------------------------------------
(* Properties of the reactivation of a patient, checked under Spec *)

Reactivate == [isActive |-> JBool(TRUE)]

\* C25: a soft delete is reversible through update: PATCH /api/patients/:id
\* with { isActive: true } on a soft-deleted patient answers 200, after
\* which the patient is listed by getPatients, found by searchPatients (by
\* its first name) and counted in activePatients.
C25_SoftDeleteReversible ==
    [][ \A id \in DOMAIN patients :
          ( /\ last'.op = "PATCH /api/patients/:id" /\ last'.id = id
            /\ ~patients[id].isActive
            /\ PatchPatient(id, Reactivate, TRUE) ) =>
              /\ last'.status = 200
              /\ patients'[id].isActive
              /\ \A rows \in getPatients(DefaultLimit, DefaultOffset)' : id \in Range(rows)
              /\ id \in searchPatients(patients[id].firstName)'
              /\ \A before \in getDashboardStats : \A after \in getDashboardStats' :
                    after.activePatients.n = before.activePatients.n + 1
      ]_vars

\* a patient that was soft-deleted is active again after a PATCH answered 200
C25_ReactivatedWitness ==
    /\ last.op = "PATCH /api/patients/:id" /\ last.status = 200
    /\ last.was = "inactive"
    /\ last.id \in DOMAIN patients /\ patients[last.id].isActive
    /\ \A rows \in getPatients(DefaultLimit, DefaultOffset) : last.id \in Range(rows)

---------------------------------------------------------------------------
(* Properties of the login of a deactivated user, checked under SpecStaff *)

\* C26: the login does not consult isActive: a user whose isActive is false,
\* whom GET /api/users leaves out, is answered 200 by the login when the
\* username and the password match.
C26_InactiveUserLogsIn ==
    [][ \A body \in LoginBodies :
          (last'.op = LoginOp /\ WellFormed(body) /\ PostLogin(body, TRUE)) =>
              \A u \in Matching(body) :
                  ~users[u].isActive =>
                      /\ last'.status = 200
                      /\ last'.user.id = u
                      /\ \A role \in Roles : u \notin getUsers(role)
      ]_vars

\* the receptionist, deactivated, logged in: the answer carries the account
\* with isActive false, and the list of all users leaves it out
C26_InactiveLoggedInWitness ==
    /\ last.op = LoginOp /\ last.status = 200
    /\ last.user.id = "u2" /\ ~last.user.isActive
    /\ ~users["u2"].isActive
    /\ getUsers(JUndef) = {"u1"}

---------------------------------------------------------------------------
(* Properties of the delete of a referenced appointment, checked under    *)
(* SpecReferences                                                          *)

\* a procedure, a bill or an evolution names the appointment
ReferredTo(id) ==
    \/ \E r \in DOMAIN procedures : procedures[r].appointmentId = id
    \/ \E b \in DOMAIN billing : billing[b].appointmentId = id
    \/ \E e \in DOMAIN patientEvolutions : patientEvolutions[e].appointmentId = id

\* C27: DELETE /api/appointments/:id of an appointment that a procedure, a
\* bill or an evolution still refers to answers 500 and removes nothing:
\* neither the 200 of a delete nor the 404 of a missing row occurs for it.
C27_ReferencedDeleteFails ==
    [][ \A id \in DOMAIN appointments :
          ( /\ last'.op = "DELETE /api/appointments/:id" /\ last'.id = id
            /\ ReferredTo(id)
            /\ DeleteAppointment(id, TRUE) ) =>
              /\ last'.status = 500
              /\ UNCHANGED <<tables, issued>>
      ]_vars

\* the delete of an appointment that only a bill refers to was answered 500
\* and the appointment is still stored
C27_BilledAppointmentKeptWitness ==
    /\ last.op = "DELETE /api/appointments/:id" /\ last.status = 500
    /\ last.id \in DOMAIN appointments
    /\ \E b \in DOMAIN billing : billing[b].appointmentId = last.id
    /\ \A r \in DOMAIN procedures : procedures[r].appointmentId # last.id
    /\ \A e \in DOMAIN patientEvolutions : patientEvolutions[e].appointmentId # last.id

---------------------------------------------------------------------------
(* A PATCH and a DELETE of one row, checked under SpecRace *)

\* connection i was answered a PATCH and connection j a DELETE of the same
\* row, stored when each request arrived, and no other connection has
\* carried a request for that row
Raced(i, j) ==
    /\ inflight[i].pc = "answered" /\ inflight[j].pc = "delete answered"
    /\ inflight[i].kind = inflight[j].kind /\ inflight[i].id = inflight[j].id
    /\ inflight[i].before # NoFields /\ inflight[j].before # NoFields
    /\ \A k \in Connections \ {i, j} :
          inflight[k].kind # inflight[i].kind \/ inflight[k].id # inflight[i].id

\* C28 (as stated): a PATCH and a DELETE of the same appointment or patient
\* evolution served concurrently never resurrect the row: once both are
\* answered the row is absent, the DELETE was answered 200, and the PATCH
\* was answered 200 if its statement ran first and 404 if it ran second.
C28_NeverResurrected ==
    \A i, j \in Connections :
        Raced(i, j) =>
            /\ inflight[i].id \notin DOMAIN Table(inflight[i].kind)
            /\ inflight[j].status = 200
            /\ inflight[i].status = (IF inflight[i].seq < inflight[j].seq THEN 200 ELSE 404)

\* a bill (or a procedure, or an evolution) names the row: only an
\* appointment can be named
StillNamed(kind, id) == kind = "appointments" /\ AppointmentReferenced(id)

\* every reference the update data carries names a stored row
RefsStored(kind, data) ==
    \A c \in (DOMAIN data) \cap (DOMAIN Columns(kind)) :
        Columns(kind)[c].ref # "" =>
            data[c] = NullText \/ data[c] \in DOMAIN Table(Columns(kind)[c].ref)

\* C28 (amended): for a patient evolution, and for an appointment that no
\* procedure, bill or evolution refers to, a PATCH whose payload passes
\* the validation and a DELETE served concurrently never resurrect the row:
\* once both are answered the row is absent, the DELETE was answered 200,
\* and the PATCH was answered 404 if its statement ran second and, if it ran
\* first, 200 when the references of its payload name stored rows and 500
\* when they do not.  For an appointment that is referred to, the DELETE is
\* answered 500 and the row stays.
C28_NeverResurrectedUnlessReferenced ==
    \A i, j \in Connections :
        Raced(i, j) =>
            IF StillNamed(inflight[i].kind, inflight[i].id)
            THEN /\ inflight[j].status = 500
                 /\ inflight[i].id \in DOMAIN Table(inflight[i].kind)
            ELSE /\ inflight[i].id \notin DOMAIN Table(inflight[i].kind)
                 /\ inflight[j].status = 200
                 /\ inflight[i].status =
                       (IF inflight[i].seq > inflight[j].seq THEN 404
                        ELSE IF RefsStored(inflight[i].kind, inflight[i].data) THEN 200
                        ELSE 500)

\* the DELETE statement of an appointment ran before the UPDATE statement
\* of a check-in that had arrived first: the DELETE was answered 200, the
\* PATCH 404, and the appointment is gone
C28_PatchAfterDeleteWitness ==
    /\ inflight[1].pc = "answered" /\ inflight[2].pc = "delete answered"
    /\ inflight[1].kind = "appointments" /\ inflight[2].kind = "appointments"
    /\ inflight[2].before # NoFields
    /\ inflight[2].before.updatedAt = inflight[1].before.updatedAt
    /\ inflight[1].seq > inflight[2].seq
    /\ inflight[1].status = 404 /\ inflight[2].status = 200
    /\ "a1" \notin DOMAIN appointments

---------------------------------------------------------------------------
(* Properties of the start-up, checked under SpecBoot *)

UniqueUsernames ==
    \A u, v \in DOMAIN users : u # v => users[u].username # users[v].username

BothDefaults ==
    getUserByUsername("doctor") # Undefined /\ getUserByUsername("receptionist") # Undefined

\* no run rejects; a run goes on to insert only after a check that found no
\* user named doctor; users are written by the inserts of a run alone
RunsBehave ==
    /\ \A r \in Runs : startup'[r].pc # "rejected"
    /\ \A r \in Runs :
          (startup[r].pc = "select" /\ startup'[r].pc = "insert doctor") =>
              getUserByUsername("doctor") = Undefined
    /\ users' # users =>
          \E r \in Runs : startup[r].pc \in {"insert doctor", "insert receptionist"}

\* C29: initializeDefaults is idempotent and never fails the process: it
\* inserts the default users only when no user named doctor exists; any
\* number of runs, one after the other or overlapping with one another and
\* with requests, leaves at most one user per username and swallows every
\* error (no run rejects); and on a store that had no users, once the runs
\* are over and one of them at least met no error, both default users are
\* present.
C29_StartupIdempotent ==
    /\ [](/\ UniqueUsernames
          /\ ( /\ \A r \in Runs : startup[r].pc = "done"
               /\ \E r \in Runs : ~startup[r].caught ) => BothDefaults)
    /\ [][RunsBehave]_vars
---------------------------------------------------------------------------
(* Properties of the date range of GET /api/appointments, checked under *)
(* SpecRange                                                             *)

\* the query parameter is a date
IsDate(q) == q.k = "string" /\ q.s = "iso-8601"

\* the stored appointments dated from startQ to endQ, both included
Between(startQ, endQ) ==
    { id \in DOMAIN appointments :
        startQ.n <= appointments[id].appointmentDate
        /\ appointments[id].appointmentDate <= endQ.n }

\* C30: the date-range filter of getAppointments is applied only when both
\* startDate and endDate are given: GET /api/appointments with only one of
\* the two bounds (or none) answers 200 with every stored appointment,
\* exactly as the request with no bounds would; with both bounds, each a
\* date, it answers 200 with the appointments whose appointmentDate lies
\* between them, both ends inclusive.
C30_RangeNeedsBothBounds ==
    [][\A startQ \in RangeBounds, endQ \in RangeBounds :
          (last'.op = "GET /api/appointments" /\ GetAppointments(startQ, endQ, TRUE)) =>
              /\ ~(Truthy(startQ) /\ Truthy(endQ)) =>
                    /\ last'.status = 200
                    /\ Range(last'.rows) = DOMAIN appointments
                    /\ Len(last'.rows) = Cardinality(DOMAIN appointments)
                    /\ GetAppointments(JUndef, JUndef, TRUE)
              /\ (IsDate(startQ) /\ IsDate(endQ)) =>
                    /\ last'.status = 200
                    /\ Range(last'.rows) = Between(startQ, endQ)
                    /\ Len(last'.rows) = Cardinality(Between(startQ, endQ))]_vars

\* two appointments are stored, at the last instant of today and at the
\* first of tomorrow, and the list answered holds the first alone: the
\* request gave both bounds and its upper bound, that very instant, is
\* included
C30_UpperBoundIncludedWitness ==
    /\ last.op = "GET /api/appointments"
    /\ last.status = 200
    /\ Cardinality(DOMAIN appointments) = 2
    /\ \E id \in DOMAIN appointments : appointments[id].appointmentDate = StartTime + DayLen
    /\ Len(last.rows) = 1
    /\ appointments[last.rows[1]].appointmentDate = StartTime + DayLen - 1

=============================================================================
